---- MODULE Spec2Model ----
(***************************************************************************)
(* Lyft RP bot (src/main.py, and its older version src/Main.py): the ride  *)
(* request view (Claim / End Ride), the rating prompt and the Accept /     *)
(* Deny review view, as interleaved handler tasks on one event loop.       *)
(*                                                                         *)
(* A button click creates a task.  A task runs without interruption from   *)
(* one await to the next; every action below is one such span.  An awaited *)
(* Discord call may also raise, which ends the handler (Raise).            *)
(***************************************************************************)
EXTENDS Integers, Sequences, FiniteSets, Bags, TLC

\* ------------------------------------------------------------ bounds
MaxRides == 1      \* ride requests posted
MaxReviews == 1    \* allocation / permission requests posted
MaxTasks == 3      \* button clicks (handler tasks) in one run

\* ------------------------------------------------------------ configuration
None == 0
NA == 0            \* the Ride Log "Rating" field before a rating: "N/A"
MaxScore == 5      \* rating buttons b1..b5

ROLE_ID_1 == "ROLE_ID_1"
ROLE_ID_2 == "ROLE_ID_2"
REVIEW_ROLE_1 == "REVIEW_ROLE_1"
REVIEW_ROLE_2 == "REVIEW_ROLE_2"
CITIZEN_ROLE_ID == "CITIZEN_ROLE_ID"
BLACKLISTER_ROLE_ID == "BLACKLISTER_ROLE_ID"
DRIVER_ROLES == {ROLE_ID_1, ROLE_ID_2}
ALLOWED_ROLES == {ROLE_ID_1, ROLE_ID_2}

Users == {1, 2, 3}
Riders == {1, 3}   \* who posts ride requests: a driver, and a user with no driver role
\* member.roles of each user: 1 is a driver and citizen, 2 a driver, reviewer and
\* blacklister, 3 a reviewer and citizen
UserRoles(u) ==
    CASE u = 1 -> {ROLE_ID_1, CITIZEN_ROLE_ID}
      [] u = 2 -> {ROLE_ID_2, REVIEW_ROLE_1, BLACKLISTER_ROLE_ID}
      [] OTHER -> {REVIEW_ROLE_2, CITIZEN_ROLE_ID}

has_driver_role(u) == \E r \in UserRoles(u) : r \in DRIVER_ROLES
user_has_allowed_role(u) == \E r \in UserRoles(u) : r \in ALLOWED_ROLES
is_reviewer(u) == \E r \in UserRoles(u) : r \in {REVIEW_ROLE_1, REVIEW_ROLE_2}
has_citizen_role(u) == \E r \in UserRoles(u) : r = CITIZEN_ROLE_ID

Files == {"main.py", "Main.py"}
Scores == (MaxScore - 1)..MaxScore   \* two of the five buttons

\* ------------------------------------------------------------ state
VARIABLES
    file,        \* the version of the bot that runs: main.py, or the older Main.py
    rides,       \* ClaimView objects, by request number
    rideMsgs,    \* the request message as Discord shows it: status and buttons
    logMsgs,     \* Ride Log messages, by message id
    prompts,     \* posted RatingView objects, by prompt number
    ratingLog,   \* "Ride Rating Submitted" entries in the rating audit channel
    reviews,     \* ApproveDenyView objects, by request number
    reviewMsgs,  \* the review message as Discord shows it
    notices,     \* decision announcements sent to the review channel
    tasks,       \* the handler tasks in flight (a bag): who clicked what, and where it is
    accepted,    \* the clicks a handler has accepted so far (a bag)
    last,        \* the answer the most recent handler gave to its click
    clicks,      \* the number of clicks so far
    votes,       \* _votes: the up and down voters, by suggestion message id
    voteMsgs,    \* the suggestion messages as Discord shows them, and their view
    ingame,      \* IngameRideView objects, by dashboard number
    dashboards,  \* the in-game dashboard messages as Discord shows them
    ongoing,     \* ongoing_message_ids
    ingameLogs,  \* "In-Game Ride Log" entries
    feed,        \* promotion, infraction, blacklist and ride-log announcements
    mem,         \* ProfileStore: the in-memory document
    disk,        \* ProfileStore: the canonical file
    tmp,         \* ProfileStore: the temporary file
    writers,     \* ProfileStore: the mutating calls in progress
    boots        \* process restarts that reloaded the store

vars == <<file, rides, rideMsgs, logMsgs, prompts, ratingLog, reviews, reviewMsgs,
          notices, tasks, accepted, last, clicks, votes, voteMsgs,
          ingame, dashboards, ongoing, ingameLogs, feed,
          mem, disk, tmp, writers, boots>>

storeVars == <<mem, disk, tmp, writers, boots>>
gameVars == <<ingame, dashboards, ongoing, ingameLogs>>
\* what the handlers of ride and review requests never touch
elsewhere == <<file, votes, voteMsgs, gameVars, feed, storeVars>>
\* what the handlers of /suggest never touch
requestVars == <<file, rides, rideMsgs, logMsgs, prompts, ratingLog, reviews, reviewMsgs,
                 notices, gameVars, feed, storeVars>>
\* what the handlers of in-game rides never touch
offGame == <<file, rides, rideMsgs, logMsgs, prompts, ratingLog, reviews, reviewMsgs,
             notices, votes, voteMsgs, feed, storeVars>>

NoSnap == [first |-> FALSE, second |-> FALSE]

\* a handler task: the button (kind), interaction.user.id, the view it belongs to,
\* the rating button's score, its position, and the button states it last sent
NewTask(k, u, x, s, p) ==
    [kind |-> k, user |-> u, tgt |-> x, score |-> s, pc |-> p, snap |-> NoSnap]

Accepted(k) == [kind |-> k.kind, user |-> k.user, tgt |-> k.tgt, score |-> k.score]
Answer(k, r) == [kind |-> k.kind, user |-> k.user, tgt |-> k.tgt, res |-> r]
NoAnswer == [kind |-> "none", user |-> None, tgt |-> None, res |-> "none"]

Put(B, e) == B (+) SetToBag({e})
Take(B, e) == B (-) SetToBag({e})
Move(k, p) == Put(Take(tasks, k), [k EXCEPT !.pc = p])

\* ------------------------------------------------------------ ProfileStore: the file
MaxAppends == 4   \* entries appended to the store
MaxBoots == 1     \* restarts of the process

\* the subjects of the document, in the order of the file: riders, then drivers
StoreKeys == <<[role |-> "riders", id |-> 3], [role |-> "drivers", id |-> 1]>>
Entries == 1..MaxAppends         \* ride entries (date, counterpart, fields)
StoreScores == {1, MaxScore}     \* scores of the ratings
Writers == {1, 2}                \* the tasks that call the store

EmptyDoc == [k \in {} |-> 0]

RECURSIVE Sum(_)
Sum(s) == IF s = <<>> THEN 0 ELSE Head(s) + Sum(Tail(s))

\* count and mean of the ratings, the mean in hundredths
Aggregate(ratings) ==
    [count |-> Len(ratings),
     mean |-> IF ratings = <<>> THEN 0 ELSE (Sum(ratings) * 100) \div Len(ratings)]

\* a ProfileRecord; the aggregate is derived from the ratings, never stored apart
Record(history, ratings) ==
    [history |-> history, ratings |-> ratings, aggregate |-> Aggregate(ratings)]

\* the file is a sequence of tokens
Tok(t, v) == [t |-> t, v |-> v]

SerializeList(tag, s) == <<Tok(tag, Len(s))>> \o [i \in 1..Len(s) |-> Tok("item", s[i])]

SerializeRecord(i, rec) ==
    <<Tok("key", i)>> \o SerializeList("history", rec.history)
                      \o SerializeList("ratings", rec.ratings)

RECURSIVE SerializeFrom(_, _)
SerializeFrom(doc, i) ==
    IF i > Len(StoreKeys) THEN <<Tok("end", 0)>>
    ELSE (IF StoreKeys[i] \in DOMAIN doc THEN SerializeRecord(i, doc[StoreKeys[i]])
          ELSE <<>>) \o SerializeFrom(doc, i + 1)

\* the entire document as written to a file
Serialize(doc) == SerializeFrom(doc, 1)

\* (variant: a list is read back last item first)
ItemsReversed(f, p, n) == [i \in 1..n |-> f[p + n + 1 - i].v]

\* the n items of the list whose header is at position p of file f
Items(f, p, n) == [i \in 1..n |-> f[p + i].v]

Unreadable == [ok |-> FALSE, doc |-> EmptyDoc]

\* the document read from position p of file f on; ok iff the file is complete
RECURSIVE ParseFrom(_, _)
ParseFrom(f, p) ==
    IF p > Len(f) THEN Unreadable
    ELSE IF f[p].t = "end" THEN [ok |-> p = Len(f), doc |-> EmptyDoc]
    ELSE IF f[p].t # "key" \/ p + 1 > Len(f) THEN Unreadable
    ELSE LET nh == f[p + 1].v
             q == p + 2 + nh
         IN IF q > Len(f) THEN Unreadable
            ELSE IF q + f[q].v > Len(f) THEN Unreadable
            ELSE LET rest == ParseFrom(f, q + f[q].v + 1)
                     rec == Record(Items(f, p + 1, nh), Items(f, q, f[q].v))
                 IN [ok |-> rest.ok, doc |-> (StoreKeys[f[p].v] :> rec) @@ rest.doc]

\* the file holds a whole document
Complete(f) == ParseFrom(f, 1).ok

\* the document read at process start; what cannot be read is defaulted
Load(f) == IF Complete(f) THEN ParseFrom(f, 1).doc ELSE EmptyDoc

Idle == [pc |-> "idle", op |-> "none", key |-> 0, val |-> 0]

StoreInit ==
    /\ mem = EmptyDoc
    /\ disk = Serialize(EmptyDoc)
    /\ tmp = <<>>
    /\ writers = [w \in Writers |-> Idle]
    /\ boots = 0

\* the handler of task k has decided: out is its answer
Decide(k, out) ==
    /\ last' = Answer(k, out)
    /\ accepted' = IF out = "Ok" THEN Put(accepted, Accepted(k)) ELSE accepted

Init ==
    /\ file \in Files
    /\ rides = <<>>
    /\ rideMsgs = <<>>
    /\ logMsgs = <<>>
    /\ prompts = <<>>
    /\ ratingLog = <<>>
    /\ reviews = <<>>
    /\ reviewMsgs = <<>>
    /\ notices = <<>>
    /\ tasks = EmptyBag
    /\ accepted = EmptyBag
    /\ last = NoAnswer
    /\ clicks = 0
    /\ votes = <<>>
    /\ voteMsgs = <<>>
    /\ ingame = <<>>
    /\ dashboards = <<>>
    /\ ongoing = {}
    /\ ingameLogs = <<>>
    /\ feed = <<>>
    /\ StoreInit

\* ------------------------------------------------------------ /request ride
\* ClaimView.__init__, and the request message as it is posted
NewClaimView(u) ==
    [requester_id |-> u, claimed |-> FALSE, claimed_by |-> None,
     claim_disabled |-> FALSE, end_disabled |-> FALSE,
     lock |-> FALSE, log_message_id |-> None]

NewRideMsg == [status |-> "Unclaimed", claim_disabled |-> FALSE, end_disabled |-> FALSE]

\* the command posts the request message with a new ClaimView
PostRide(u) ==
    /\ rides' = Append(rides, NewClaimView(u))
    /\ rideMsgs' = Append(rideMsgs, NewRideMsg)
    /\ UNCHANGED <<elsewhere, logMsgs, prompts, ratingLog, reviews, reviewMsgs, notices,
                   tasks, accepted, last, clicks>>

RequestRide(u) ==
    /\ Len(rides) < MaxRides
    /\ PostRide(u)

\* A click reaches the bot only while Discord shows the button enabled.
Click(k) ==
    /\ clicks' = clicks + 1
    /\ tasks' = Put(tasks, k)

ClickClaim(u, r) ==
    /\ r \in DOMAIN rides
    /\ ~rideMsgs[r].claim_disabled
    /\ Click(NewTask("claim", u, r, 0, "defer"))
    /\ UNCHANGED <<elsewhere, rides, rideMsgs, logMsgs, prompts, ratingLog, reviews, reviewMsgs,
                   notices, accepted, last>>

ClickEnd(u, r) ==
    /\ r \in DOMAIN rides
    /\ ~rideMsgs[r].end_disabled
    /\ Click(NewTask("end", u, r, 0, "defer"))
    /\ UNCHANGED <<elsewhere, rides, rideMsgs, logMsgs, prompts, ratingLog, reviews, reviewMsgs,
                   notices, accepted, last>>

\* ------------------------------------------------------------ ClaimView.claim
\* (variant: the "already claimed" check never fires)
IsClaimedNever(v) == FALSE

IsClaimed(v) ==
    IF file = "Main.py" THEN v.claimed ELSE v.claimed_by # None

\* (variant: claim without the role check)
MayClaimAnyone(v, u) == TRUE

MayClaim(v, u) ==
    IF file = "Main.py" THEN user_has_allowed_role(u) ELSE has_driver_role(u)

\* (variant: the requester may not claim the own request)
ClaimOutcomeNoSelf(v, u) ==
    IF ~MayClaim(v, u) \/ u = v.requester_id THEN "Unauthorized"
    ELSE IF IsClaimed(v) THEN "AlreadyClaimed"
    ELSE "Ok"

\* (variant: the status is checked before the role)
ClaimOutcomeStatusFirst(v, u) ==
    IF IsClaimed(v) THEN "AlreadyClaimed"
    ELSE IF ~MayClaim(v, u) THEN "Unauthorized"
    ELSE "Ok"

\* (variant: a repeat claim by the claimant succeeds again)
ClaimOutcomeIdempotent(v, u) ==
    IF ~MayClaim(v, u) THEN "Unauthorized"
    ELSE IF IsClaimed(v) /\ v.claimed_by # u THEN "AlreadyClaimed"
    ELSE "Ok"

ClaimOutcome(v, u) ==
    IF ~MayClaim(v, u) THEN "Unauthorized"
    ELSE IF IsClaimed(v) THEN "AlreadyClaimed"
    ELSE "Ok"

\* (variant: claim sets the flag and leaves the claimant unset)
ClaimCommitFlagOnly(v, u) ==
    [v EXCEPT !.claimed = (file = "Main.py"), !.claim_disabled = TRUE]

\* the fields claim writes before its first await inside the lock
ClaimCommit(v, u) ==
    [v EXCEPT !.claimed = (file = "Main.py"), !.claimed_by = u,
              !.claim_disabled = TRUE]

\* (variant: one lock shared by all ClaimViews)
LockHeldAnywhere(r) == \E x \in DOMAIN rides : rides[x].lock

\* self._lock of the ClaimView of request r is held
LockHeld(r) == rides[r].lock

\* defer() has returned and `async with self._lock` is entered: the two checks,
\* and on success the writes, up to the next await
ClaimEnter(k) ==
    /\ k.kind = "claim" /\ k.pc = "defer"
    /\ LET r == k.tgt
           v == rides[r]
           out == ClaimOutcome(v, k.user)
       IN /\ ~LockHeld(r)
          /\ Decide(k, out)
          /\ IF out = "Ok"
             THEN /\ rides' = [rides EXCEPT ![r] = [ClaimCommit(v, k.user) EXCEPT !.lock = TRUE]]
                  /\ tasks' = Put(Take(tasks, k),
                                  [k EXCEPT !.pc = "edit",
                                            !.snap = [first |-> TRUE, second |-> v.end_disabled]])
             ELSE /\ rides' = [rides EXCEPT ![r].lock = TRUE]
                  /\ tasks' = Move(k, "reply")
    /\ UNCHANGED <<elsewhere, rideMsgs, logMsgs, prompts, ratingLog, reviews, reviewMsgs, notices, clicks>>

\* (variant: the refusing paths return without leaving the lock)
ClaimReplyKeepsLock(k) ==
    /\ k.kind = "claim" /\ k.pc = "reply"
    /\ tasks' = Take(tasks, k)
    /\ UNCHANGED <<elsewhere, rides, rideMsgs, logMsgs, prompts, ratingLog, reviews, reviewMsgs,
                   notices, accepted, last, clicks>>

\* `return await interaction.followup.send(...)` inside the lock
ClaimReply(k) ==
    /\ k.kind = "claim" /\ k.pc = "reply"
    /\ rides' = [rides EXCEPT ![k.tgt].lock = FALSE]
    /\ tasks' = Take(tasks, k)
    /\ UNCHANGED <<elsewhere, rideMsgs, logMsgs, prompts, ratingLog, reviews, reviewMsgs, notices,
                   accepted, last, clicks>>

\* interaction.followup.edit_message(embed=new, view=self) is applied
ClaimEdit(k) ==
    /\ k.kind = "claim" /\ k.pc = "edit"
    /\ rideMsgs' = [rideMsgs EXCEPT ![k.tgt] =
          [status |-> "Claimed", claim_disabled |-> k.snap.first,
           end_disabled |-> k.snap.second]]
    /\ tasks' = Move(k, "announce")
    /\ UNCHANGED <<elsewhere, rides, logMsgs, prompts, ratingLog, reviews, reviewMsgs, notices,
                   accepted, last, clicks>>

\* "Driver Assigned" and the audit entry are sent; the lock is left
ClaimAnnounce(k) ==
    /\ k.kind = "claim" /\ k.pc = "announce"
    /\ rides' = [rides EXCEPT ![k.tgt].lock = FALSE]
    /\ tasks' = Take(tasks, k)
    /\ UNCHANGED <<elsewhere, rideMsgs, logMsgs, prompts, ratingLog, reviews, reviewMsgs, notices,
                   accepted, last, clicks>>

\* ------------------------------------------------------------ ClaimView.end_ride
\* (variant: End Ride without the check for a claimant)
NotClaimedYetNever(v) == FALSE

NotClaimedYet(v) ==
    IF file = "Main.py" THEN ~v.claimed \/ v.claimed_by = None
    ELSE v.claimed_by = None

\* (variant: End Ride without the check of the actor against claimed_by)
EndOutcomeAnyActor(v, u) ==
    IF NotClaimedYet(v) THEN "NotClaimed" ELSE "Ok"

\* (variant: End Ride without either check)
EndOutcomeUnchecked(v, u) == "Ok"

EndOutcome(v, u) ==
    IF NotClaimedYet(v) THEN "NotClaimed"
    ELSE IF u # v.claimed_by THEN "WrongActor"
    ELSE "Ok"

\* what end_ride writes once both checks have passed: button.disabled = True
\* (variant: ending the ride also clears the claimant)
EndCommitReset(v) == [v EXCEPT !.end_disabled = TRUE, !.claimed_by = None]

EndCommit(v) == [v EXCEPT !.end_disabled = TRUE]

\* defer() has returned: the two checks, then button.disabled = True and the call
\* of edit_message; a refused click is answered and the handler is over
EndCheck(k) ==
    /\ k.kind = "end" /\ k.pc = "defer"
    /\ LET r == k.tgt
           v == rides[r]
           out == EndOutcome(v, k.user)
       IN /\ Decide(k, out)
          /\ IF out = "Ok"
             THEN /\ rides' = [rides EXCEPT ![r] = EndCommit(v)]
                  /\ tasks' = Put(Take(tasks, k),
                                  [k EXCEPT !.pc = "edit",
                                            !.snap = [first |-> v.claim_disabled, second |-> TRUE]])
             ELSE /\ rides' = rides
                  /\ tasks' = Take(tasks, k)
    /\ UNCHANGED <<elsewhere, rideMsgs, logMsgs, prompts, ratingLog, reviews, reviewMsgs, notices, clicks>>

EndEdit(k) ==
    /\ k.kind = "end" /\ k.pc = "edit"
    /\ rideMsgs' = [rideMsgs EXCEPT ![k.tgt] =
          [status |-> "Completed", claim_disabled |-> k.snap.first,
           end_disabled |-> k.snap.second]]
    /\ tasks' = Move(k, IF file = "Main.py" THEN "notice" ELSE "log")
    /\ UNCHANGED <<elsewhere, rides, logMsgs, prompts, ratingLog, reviews, reviewMsgs, notices,
                   accepted, last, clicks>>

\* Main.py: the "Ride ended by" notice, the handler's last call
EndNotice(k) ==
    /\ k.kind = "end" /\ k.pc = "notice"
    /\ tasks' = Take(tasks, k)
    /\ UNCHANGED <<elsewhere, rides, rideMsgs, logMsgs, prompts, ratingLog, reviews, reviewMsgs,
                   notices, accepted, last, clicks>>

\* main.py: the Ride Log entry; send_embed returns the message, or None when the
\* channel cannot be fetched
EndLog(k) ==
    /\ k.kind = "end" /\ k.pc = "log"
    /\ \/ /\ logMsgs' = Append(logMsgs, [ride |-> k.tgt, rider |-> rides[k.tgt].requester_id,
                                         driver |-> k.user, rating |-> NA])
          /\ rides' = [rides EXCEPT ![k.tgt].log_message_id = Len(logMsgs) + 1]
       \/ /\ logMsgs' = logMsgs
          /\ rides' = [rides EXCEPT ![k.tgt].log_message_id = None]
    /\ tasks' = Move(k, "prompt")
    /\ UNCHANGED <<elsewhere, rideMsgs, prompts, ratingLog, reviews, reviewMsgs, notices, accepted, last, clicks>>

\* the RatingView that end_ride builds after the audit entry
NewRatingView(r, v, u) ==
    [ride |-> r, rider_id |-> v.requester_id, driver_id |-> u,
     log_message_id |-> v.log_message_id,
     submitted |-> FALSE, shown_disabled |-> FALSE]

\* "Ride Completed" and the audit entry are sent; the RatingView is built and posted
\* in the thread (or the target channel)
EndPrompt(k) ==
    /\ k.kind = "end" /\ k.pc = "prompt"
    /\ prompts' = Append(prompts, NewRatingView(k.tgt, rides[k.tgt], k.user))
    /\ tasks' = Take(tasks, k)
    /\ UNCHANGED <<elsewhere, rides, rideMsgs, logMsgs, ratingLog, reviews, reviewMsgs, notices,
                   accepted, last, clicks>>

\* ------------------------------------------------------------ RatingView
\* (the view's timeout of 600 s only ends the clicks on a prompt)
ClickRate(u, p, s) ==
    /\ p \in DOMAIN prompts
    /\ ~prompts[p].shown_disabled
    /\ Click(NewTask("rate", u, p, s, "start"))
    /\ UNCHANGED <<elsewhere, rides, rideMsgs, logMsgs, prompts, ratingLog, reviews, reviewMsgs,
                   notices, accepted, last>>

\* the five buttons of a RatingView, rate_1 .. rate_5
RateButtons == 1..MaxScore

\* (variant: the buttons pass 0 .. 4)
ButtonScoreFromZero(b) == b - 1

\* the score that button b passes to _submit: b1 passes 1, ..., b5 passes 5
ButtonScore(b) == b

\* (variant: _submit without the check of the user against rider_id)
SubmitOutcomeAnyone(v, u) ==
    IF v.submitted THEN "Duplicate" ELSE "Ok"

SubmitOutcome(v, u) ==
    IF u # v.rider_id THEN "Unauthorized"
    ELSE IF v.submitted THEN "Duplicate"
    ELSE "Ok"

\* _submit up to its first await; a refused click is answered and the handler is over
RateSubmit(k) ==
    /\ k.kind = "rate" /\ k.pc = "start"
    /\ LET p == k.tgt
           out == SubmitOutcome(prompts[p], k.user)
       IN /\ Decide(k, out)
          /\ IF out = "Ok"
             THEN /\ prompts' = [prompts EXCEPT ![p].submitted = TRUE]
                  /\ tasks' = Put(Take(tasks, k),
                                  [k EXCEPT !.pc = "edit",
                                            !.snap = [first |-> TRUE, second |-> TRUE]])
             ELSE /\ prompts' = prompts
                  /\ tasks' = Take(tasks, k)
    /\ UNCHANGED <<elsewhere, rides, rideMsgs, logMsgs, ratingLog, reviews, reviewMsgs, notices, clicks>>

\* interaction.response.edit_message(embed=new, view=self): buttons shown disabled
RateEdit(k) ==
    /\ k.kind = "rate" /\ k.pc = "edit"
    /\ prompts' = [prompts EXCEPT ![k.tgt].shown_disabled = k.snap.first]
    /\ tasks' = Move(k, "log")
    /\ UNCHANGED <<elsewhere, rides, rideMsgs, logMsgs, ratingLog, reviews, reviewMsgs, notices,
                   accepted, last, clicks>>

\* _update_log_rating: the Rating field of the Ride Log entry is replaced; nothing
\* happens without a log message id or when the channel or message cannot be fetched
RateUpdateLog(k) ==
    /\ k.kind = "rate" /\ k.pc = "log"
    /\ LET m == prompts[k.tgt].log_message_id
       IN \/ /\ m # None
             /\ logMsgs' = [logMsgs EXCEPT ![m].rating = k.score]
          \/ logMsgs' = logMsgs
    /\ tasks' = Move(k, "audit")
    /\ UNCHANGED <<elsewhere, rides, rideMsgs, prompts, ratingLog, reviews, reviewMsgs, notices,
                   accepted, last, clicks>>

\* the "Ride Rating Submitted" entry
RateAudit(k) ==
    /\ k.kind = "rate" /\ k.pc = "audit"
    /\ ratingLog' = Append(ratingLog,
          [prompt |-> k.tgt, rider |-> prompts[k.tgt].rider_id,
           driver |-> prompts[k.tgt].driver_id, score |-> k.score])
    /\ tasks' = Take(tasks, k)
    /\ UNCHANGED <<elsewhere, rides, rideMsgs, logMsgs, prompts, reviews, reviewMsgs, notices,
                   accepted, last, clicks>>

\* ------------------------------------------------------------ /allocation, /permission
Kinds == {"allocation", "permission"}

\* ApproveDenyView.__init__, and the review message as it is posted
NewApproveDenyView(c, u) ==
    [kind |-> c, requester_id |-> u, finalized |-> FALSE,
     accept_disabled |-> FALSE, deny_disabled |-> FALSE]

NewReviewMsg == [status |-> "Pending", accept_disabled |-> FALSE, deny_disabled |-> FALSE]

\* the command posts the review message with a new ApproveDenyView
PostReview(u, c) ==
    /\ ROLE_ID_1 \in UserRoles(u)
    /\ reviews' = Append(reviews, NewApproveDenyView(c, u))
    /\ reviewMsgs' = Append(reviewMsgs, NewReviewMsg)
    /\ UNCHANGED <<elsewhere, rides, rideMsgs, logMsgs, prompts, ratingLog, notices, tasks,
                   accepted, last, clicks>>

SubmitReview(u, c) ==
    /\ Len(reviews) < MaxReviews
    /\ PostReview(u, c)

ClickDecide(u, r, b) ==
    /\ r \in DOMAIN reviews
    /\ IF b = "approve" THEN ~reviewMsgs[r].accept_disabled
                        ELSE ~reviewMsgs[r].deny_disabled
    /\ Click(NewTask(b, u, r, 0, "start"))
    /\ UNCHANGED <<elsewhere, rides, rideMsgs, logMsgs, prompts, ratingLog, reviews, reviewMsgs,
                   notices, accepted, last>>

\* ------------------------------------------------------------ ApproveDenyView
\* (variant: _guard without the reviewer check)
GuardOutcomeNoRole(v, u) ==
    IF v.finalized THEN "AlreadyFinalized" ELSE "Ok"

\* (variant: _guard without the check of finalized)
GuardOutcomeNoFinal(v, u) ==
    IF ~is_reviewer(u) THEN "Unauthorized" ELSE "Ok"

GuardOutcome(v, u) ==
    IF ~is_reviewer(u) THEN "Unauthorized"
    ELSE IF v.finalized THEN "AlreadyFinalized"
    ELSE "Ok"

Decision(b) == IF b = "approve" THEN "Accepted" ELSE "Denied"

\* (variant: _finish disables the buttons and forgets finalized = True)
FinishNoFlag(v) ==
    [v EXCEPT !.accept_disabled = TRUE, !.deny_disabled = TRUE]

\* what _finish writes before its first await
Finish(v) ==
    [v EXCEPT !.finalized = TRUE, !.accept_disabled = TRUE, !.deny_disabled = TRUE]

\* approve / deny: _guard, and on True the start of _finish up to its first await;
\* a refused click is answered and the handler is over
DecideGuard(k) ==
    /\ k.kind \in {"approve", "deny"} /\ k.pc = "start"
    /\ LET r == k.tgt
           out == GuardOutcome(reviews[r], k.user)
       IN /\ Decide(k, out)
          /\ IF out = "Ok"
             THEN /\ reviews' = [reviews EXCEPT ![r] = Finish(reviews[r])]
                  /\ tasks' = Put(Take(tasks, k),
                                  [k EXCEPT !.pc = "edit",
                                            !.snap = [first |-> TRUE, second |-> TRUE]])
             ELSE /\ reviews' = reviews
                  /\ tasks' = Take(tasks, k)
    /\ UNCHANGED <<elsewhere, rides, rideMsgs, logMsgs, prompts, ratingLog, reviewMsgs, notices, clicks>>

\* interaction.response.edit_message(embed=new, view=self): Status and buttons
DecideEdit(k) ==
    /\ k.kind \in {"approve", "deny"} /\ k.pc = "edit"
    /\ reviewMsgs' = [reviewMsgs EXCEPT ![k.tgt] =
          [status |-> Decision(k.kind), accept_disabled |-> k.snap.first,
           deny_disabled |-> k.snap.second]]
    /\ tasks' = Move(k, "announce")
    /\ UNCHANGED <<elsewhere, rides, rideMsgs, logMsgs, prompts, ratingLog, reviews, notices,
                   accepted, last, clicks>>

\* msg.channel.send(dec), then the audit entry
DecideAnnounce(k) ==
    /\ k.kind \in {"approve", "deny"} /\ k.pc = "announce"
    /\ notices' = Append(notices,
          [review |-> k.tgt, decision |-> Decision(k.kind), reviewer |-> k.user])
    /\ tasks' = Take(tasks, k)
    /\ UNCHANGED <<elsewhere, rides, rideMsgs, logMsgs, prompts, ratingLog, reviews, reviewMsgs,
                   accepted, last, clicks>>

\* ------------------------------------------------------------ a raised exception
HoldsLock(k) == k.kind = "claim" /\ k.pc \in {"reply", "edit", "announce"}

\* (variant: a call that raises inside the claim lock undoes the claim)
RaiseReopens(k) ==
    /\ k.pc # "start"
    /\ tasks' = Take(tasks, k)
    /\ rides' = IF HoldsLock(k)
                THEN [rides EXCEPT ![k.tgt].lock = FALSE, ![k.tgt].claimed = FALSE,
                                   ![k.tgt].claimed_by = None]
                ELSE rides
    /\ UNCHANGED <<elsewhere, rideMsgs, logMsgs, prompts, ratingLog, reviews, reviewMsgs, notices,
                   accepted, last, clicks>>

\* The call task k awaits raises: the handler ends there, and `async with` leaves
\* the claim lock.
Raise(k) ==
    /\ k.pc # "start"
    /\ tasks' = Take(tasks, k)
    /\ rides' = IF HoldsLock(k) THEN [rides EXCEPT ![k.tgt].lock = FALSE] ELSE rides
    /\ UNCHANGED <<elsewhere, rideMsgs, logMsgs, prompts, ratingLog, reviews, reviewMsgs, notices,
                   accepted, last, clicks>>

\* ------------------------------------------------------------ /suggest
MaxSuggestions == 1   \* suggestions posted
MaxVoteClicks == 3    \* vote clicks in one run

Sides == {"up", "down"}
NoVotes == [up |-> {}, down |-> {}]

\* /suggest: channel.send posts the message with the buttons of the temporary
\* SuggestionView(0, 0, 0); until the call returns no view is stored for the
\* message, and a click on it goes to the router of on_ready
SuggestPost(u) ==
    /\ has_citizen_role(u)
    /\ voteMsgs' = Append(voteMsgs, [up_label |-> 0, down_label |-> 0, view |-> "router"])
    /\ tasks' = Put(tasks, NewTask("suggest", u, Len(voteMsgs) + 1, 0, "init"))
    /\ UNCHANGED <<requestVars, accepted, last, clicks, votes>>

\* channel.send has returned: the temporary view is the view of the message,
\* _votes[msg.id] is assigned two empty sets, and msg.edit is called with the view
\* of build_suggest_view(msg.id)
SuggestInit(k) ==
    /\ k.kind = "suggest" /\ k.pc = "init"
    /\ voteMsgs' = [voteMsgs EXCEPT ![k.tgt].view = "temp"]
    /\ votes' = (k.tgt :> NoVotes) @@ votes
    /\ tasks' = Move(k, "bind")
    /\ UNCHANGED <<requestVars, accepted, last, clicks>>

\* msg.edit has returned: the message carries the view built for its id; the
\* thread and the reply to the command follow
SuggestBind(k) ==
    /\ k.kind = "suggest" /\ k.pc = "bind"
    /\ voteMsgs' = [voteMsgs EXCEPT ![k.tgt].view = "bound"]
    /\ tasks' = Take(tasks, k)
    /\ UNCHANGED <<requestVars, accepted, last, clicks, votes>>

ClickVote(u, m, side) ==
    /\ m \in DOMAIN voteMsgs
    /\ Click(NewTask(side, u, m, 0, "start"))
    /\ UNCHANGED <<requestVars, accepted, last, votes, voteMsgs>>

\* self.message_id of the view that receives a click on message m: 0 for the
\* temporary view, m for the view built by build_suggest_view(m), also when the
\* router of on_ready builds it
ViewKey(m) == IF voteMsgs[m].view = "temp" THEN 0 ELSE m

\* _votes.setdefault(mid, ...) followed by _votes[mid]
Ensure(mid) == IF mid \in DOMAIN votes THEN votes[mid] ELSE NoVotes

Other(side) == IF side = "up" THEN "down" ELSE "up"

\* (variant: _toggle only ever adds the user to the side)
ToggledAlwaysAdds(rec, u, side) ==
    [rec EXCEPT ![Other(side)] = @ \ {u}, ![side] = @ \cup {u}]

\* (variant: _toggle without the discard from the other side)
ToggledNoDiscard(rec, u, side) ==
    [rec EXCEPT ![side] = IF u \in @ THEN @ \ {u} ELSE @ \cup {u}]

\* the record _toggle leaves for user u
Toggled(rec, u, side) ==
    [rec EXCEPT ![Other(side)] = @ \ {u},
                ![side] = IF u \in @ THEN @ \ {u} ELSE @ \cup {u}]

\* _toggle up to its first await: _ensure, the toggle under _votes_lock, the new
\* labels of the view, and the call of edit_message
VoteToggle(k) ==
    /\ k.kind \in Sides /\ k.pc = "start"
    /\ LET mid == ViewKey(k.tgt)
           rec == Ensure(mid)
           new == Toggled(rec, k.user, k.kind)
       IN /\ votes' = (mid :> new) @@ votes
          /\ Decide(k, IF k.user \in rec[k.kind] THEN "removed" ELSE "added")
          /\ tasks' = Put(Take(tasks, k),
                          [k EXCEPT !.pc = IF mid = 0 THEN "edit_temp" ELSE "edit",
                                    !.snap = [first |-> Cardinality(new.up),
                                              second |-> Cardinality(new.down)]])
    /\ UNCHANGED <<requestVars, clicks, voteMsgs>>

\* edit_message(view=self) is applied: the labels, and self as the message's view;
\* the "Vote added / removed" reply follows
VoteEdit(k) ==
    /\ k.kind \in Sides /\ k.pc \in {"edit", "edit_temp"}
    /\ voteMsgs' = [voteMsgs EXCEPT ![k.tgt] =
          [up_label |-> k.snap.first, down_label |-> k.snap.second,
           view |-> IF k.pc = "edit_temp" THEN "temp" ELSE "bound"]]
    /\ tasks' = Take(tasks, k)
    /\ UNCHANGED <<requestVars, accepted, last, clicks, votes>>

\* A click on List Voters of message m
ClickList(u, m) ==
    /\ m \in DOMAIN voteMsgs
    /\ Click(NewTask("list", u, m, 0, "start"))
    /\ UNCHANGED <<requestVars, accepted, last, votes, voteMsgs>>

\* lst up to its await: _ensure, both sets read under _votes_lock, and the call
\* of send_message with the two lists
VoteList(k) ==
    /\ k.kind = "list" /\ k.pc = "start"
    /\ LET mid == ViewKey(k.tgt)
           rec == Ensure(mid)
       IN /\ votes' = (mid :> rec) @@ votes
          /\ tasks' = Put(Take(tasks, k),
                          [k EXCEPT !.pc = "reply",
                                    !.snap = [first |-> rec.up, second |-> rec.down]])
    /\ UNCHANGED <<requestVars, accepted, last, clicks, voteMsgs>>

\* send_message has delivered the embed with the upvoters and the downvoters
ListReply(k) ==
    /\ k.kind = "list" /\ k.pc = "reply"
    /\ Decide(k, "voters")
    /\ tasks' = Take(tasks, k)
    /\ UNCHANGED <<requestVars, clicks, votes, voteMsgs>>

\* The process is started again: the module is loaded anew (_votes = {}), the
\* tasks and the views of the messages are gone, and on_ready registers the
\* router of the suggestion buttons, which builds a view for the clicked message.
Restart ==
    /\ votes' = <<>>
    /\ tasks' = EmptyBag
    /\ voteMsgs' = [m \in DOMAIN voteMsgs |-> [voteMsgs[m] EXCEPT !.view = "router"]]
    /\ rides' = <<>> /\ prompts' = <<>> /\ reviews' = <<>>
    /\ ingame' = <<>> /\ ongoing' = {}
    /\ UNCHANGED <<file, rideMsgs, logMsgs, ratingLog, reviewMsgs, notices,
                   accepted, last, clicks, dashboards, ingameLogs, feed, storeVars>>

\* ------------------------------------------------------------ /ride start (in-game)
MaxIngameRides == 2   \* in-game rides started
MaxGameClicks == 2    \* End Ride clicks on dashboards in one run

\* /ride start by a driver: the dashboard is posted with its IngameRideView; the
\* command has yet to add the message id to ongoing_message_ids
IngameStart(u) ==
    /\ has_driver_role(u)
    /\ ingame' = Append(ingame, [driver_id |-> u, lock |-> FALSE, end_disabled |-> FALSE])
    /\ dashboards' = Append(dashboards,
          [status |-> "In Progress", deleted |-> FALSE, end_disabled |-> FALSE])
    /\ tasks' = Put(tasks, NewTask("ride_start", u, Len(dashboards) + 1, 0, "add"))
    /\ UNCHANGED <<offGame, accepted, last, clicks, ongoing, ingameLogs>>

\* channel.send has returned: ongoing_message_ids.add(msg.id) under ongoing_lock
IngameAdd(k) ==
    /\ k.kind = "ride_start" /\ k.pc = "add"
    /\ ongoing' = ongoing \cup {k.tgt}
    /\ tasks' = Take(tasks, k)
    /\ UNCHANGED <<offGame, accepted, last, clicks, ingame, dashboards, ingameLogs>>

ClickIngameEnd(u, m) ==
    /\ m \in DOMAIN dashboards
    /\ ~dashboards[m].deleted /\ ~dashboards[m].end_disabled
    /\ Click(NewTask("ingame_end", u, m, 0, "defer"))
    /\ UNCHANGED <<offGame, accepted, last, gameVars>>

\* (variant: End Ride without the check of the user against driver_id)
IngameEndOutcomeAnyone(v, u) == "Ok"

IngameEndOutcome(v, u) == IF u # v.driver_id THEN "WrongActor" ELSE "Ok"

\* defer() has returned: the check of the actor; then `async with self._lock`,
\* which is entered at once when the lock is free, up to the call of
\* log_channel.send
IngameEndCheck(k) ==
    /\ k.kind = "ingame_end" /\ k.pc = "defer"
    /\ LET m == k.tgt
           out == IngameEndOutcome(ingame[m], k.user)
       IN /\ Decide(k, out)
          /\ IF out # "Ok"
             THEN /\ tasks' = Take(tasks, k)
                  /\ ingame' = ingame
             ELSE IF ingame[m].lock
             THEN /\ tasks' = Move(k, "lock")
                  /\ ingame' = ingame
             ELSE /\ tasks' = Move(k, "log")
                  /\ ingame' = [ingame EXCEPT ![m].lock = TRUE]
    /\ UNCHANGED <<offGame, clicks, dashboards, ongoing, ingameLogs>>

\* the lock has become free: it is taken, up to the call of log_channel.send
IngameEndEnter(k) ==
    /\ k.kind = "ingame_end" /\ k.pc = "lock"
    /\ ~ingame[k.tgt].lock
    /\ ingame' = [ingame EXCEPT ![k.tgt].lock = TRUE]
    /\ tasks' = Move(k, "log")
    /\ UNCHANGED <<offGame, accepted, last, clicks, dashboards, ongoing, ingameLogs>>

\* ongoing_message_ids after discard(message.id)
Discarded(m) == ongoing \ {m}

\* no_other_ongoing
NoOtherOngoing(m) == Discarded(m) = {}

\* the log entry is posted; under ongoing_lock the id is discarded and
\* no_other_ongoing is read; then message.delete() is called, or the button is
\* disabled and edit_message is called
IngameEndSettle(k) ==
    /\ k.kind = "ingame_end" /\ k.pc = "log"
    /\ ingameLogs' = Append(ingameLogs, [dashboard |-> k.tgt, driver |-> k.user])
    /\ ongoing' = Discarded(k.tgt)
    /\ IF NoOtherOngoing(k.tgt)
       THEN /\ tasks' = Move(k, "delete")
            /\ ingame' = ingame
       ELSE /\ tasks' = Move(k, "edit")
            /\ ingame' = [ingame EXCEPT ![k.tgt].end_disabled = TRUE]
    /\ UNCHANGED <<offGame, accepted, last, clicks, dashboards>>

\* message.delete() (a discord.HTTPException is passed over); the lock is left
IngameEndDelete(k) ==
    /\ k.kind = "ingame_end" /\ k.pc = "delete"
    /\ \/ dashboards' = [dashboards EXCEPT ![k.tgt].deleted = TRUE]
       \/ dashboards' = dashboards
    /\ ingame' = [ingame EXCEPT ![k.tgt].lock = FALSE]
    /\ tasks' = Take(tasks, k)
    /\ UNCHANGED <<offGame, accepted, last, clicks, ongoing, ingameLogs>>

\* edit_message: Status "Completed" and the disabled button (a
\* discord.HTTPException is passed over); the lock is left
IngameEndEdit(k) ==
    /\ k.kind = "ingame_end" /\ k.pc = "edit"
    /\ \/ dashboards' = [dashboards EXCEPT ![k.tgt].status = "Completed",
                                            ![k.tgt].end_disabled = TRUE]
       \/ dashboards' = dashboards
    /\ ingame' = [ingame EXCEPT ![k.tgt].lock = FALSE]
    /\ tasks' = Take(tasks, k)
    /\ UNCHANGED <<offGame, accepted, last, clicks, ongoing, ingameLogs>>

\* defer() or log_channel.send raises: the handler ends there, and `async with`
\* leaves the lock
IngameRaise(k) ==
    /\ k.kind = "ingame_end" /\ k.pc \in {"defer", "log"}
    /\ tasks' = Take(tasks, k)
    /\ ingame' = IF k.pc = "log" THEN [ingame EXCEPT ![k.tgt].lock = FALSE] ELSE ingame
    /\ UNCHANGED <<offGame, accepted, last, clicks, dashboards, ongoing, ingameLogs>>

\* ------------------------------------------------------------ slash commands
GUILD_ID == 1
Guilds == {GUILD_ID, GUILD_ID + 1}   \* interaction.guild_id: the bot's guild, another
MaxPosts == 2                        \* messages posted by the commands

\* the commands of the running file
Commands ==
    IF file = "Main.py" THEN {"request ride", "log-ride"}
    ELSE {"request ride", "ride start", "allocation", "permission", "promote",
          "infract", "suggest", "blacklist", "log-ride"}

\* (variant: the command groups are added to the tree as global commands)
GuildScopedNone(c) == FALSE

\* on_ready adds the command groups to the tree for the guild GUILD_ID only; the
\* other commands are global commands of the tree
GuildScoped(c) == c \in {"request ride", "ride start"}

\* the tree finds a handler for command c invoked in guild g
Routed(c, g) == GuildScoped(c) => g = GUILD_ID

\* the handler starts with `if interaction.guild_id != GUILD_ID: return ...`
GuildChecked(c) ==
    IF file = "Main.py" THEN TRUE
    ELSE c \notin {"request ride", "log-ride"}

\* the role check of the handler
RoleOk(c, u) ==
    CASE c = "ride start" -> has_driver_role(u)
      [] c \in Kinds -> ROLE_ID_1 \in UserRoles(u)
      [] c \in {"promote", "infract"} -> is_reviewer(u)
      [] c = "suggest" -> has_citizen_role(u)
      [] c = "blacklist" -> BLACKLISTER_ROLE_ID \in UserRoles(u)
      [] c = "log-ride" -> user_has_allowed_role(u)
      [] OTHER -> TRUE

CommandOutcome(c, g, u) ==
    IF ~Routed(c, g) THEN "NotFound"
    ELSE IF GuildChecked(c) /\ g # GUILD_ID THEN "WrongGuild"
    ELSE IF c = "log-ride" /\ file = "main.py" THEN "Disabled"
    ELSE IF ~RoleOk(c, u) THEN "Unauthorized"
    ELSE "Ok"

\* promote, infract, blacklist, and log-ride of Main.py: the embed is posted
Announce(c, u) ==
    /\ feed' = Append(feed, [command |-> c, user |-> u])
    /\ UNCHANGED <<requestVars, accepted, last, clicks, tasks, votes, voteMsgs>>

\* what command c does for user u once its checks have passed
Effect(c, u) ==
    CASE c = "request ride" -> PostRide(u)
      [] c = "ride start" -> IngameStart(u)
      [] c \in Kinds -> PostReview(u, c)
      [] c = "suggest" -> SuggestPost(u)
      [] OTHER -> Announce(c, u)

\* user u invokes command c in guild g
Command(c, g, u) ==
    /\ c \in Commands
    /\ LET out == CommandOutcome(c, g, u)
       IN IF out = "Ok" THEN Effect(c, u)
          ELSE /\ last' = [kind |-> c, user |-> u, tgt |-> g, res |-> out]
               /\ UNCHANGED <<requestVars, accepted, clicks, tasks, votes, voteMsgs>>

\* ------------------------------------------------------------ ProfileStore: writes
Ops == {"append_ride", "append_rating"}

RECURSIVE AppendedFrom(_, _)
AppendedFrom(doc, i) ==
    IF i > Len(StoreKeys) THEN 0
    ELSE (IF StoreKeys[i] \in DOMAIN doc
          THEN Len(doc[StoreKeys[i]].history) + Len(doc[StoreKeys[i]].ratings)
          ELSE 0) + AppendedFrom(doc, i + 1)

\* entries in the document and entries of the calls waiting for the lock
Appended == AppendedFrom(mem, 1) + Cardinality({w \in Writers : writers[w].pc = "lock"})

\* a ride entry carries the date of the call: no two entries are the same
Values(op) == IF op = "append_ride" THEN {Appended + 1} ELSE StoreScores

\* get_or_create: the record of a subject, created on first reference
GetOrCreate(doc, key) == IF key \in DOMAIN doc THEN doc[key] ELSE Record(<<>>, <<>>)

\* the document after the append; the aggregate is recomputed
Applied(doc, op, key, val) ==
    LET rec == GetOrCreate(doc, key)
        new == IF op = "append_ride"
               THEN Record(Append(rec.history, val), rec.ratings)
               ELSE Record(rec.history, Append(rec.ratings, val))
    IN (key :> new) @@ doc

StoreLockHeld == \E w \in Writers : writers[w].pc \notin {"idle", "lock"}

Step(w, pc) == writers' = [writers EXCEPT ![w].pc = pc]

\* a mutating call is made
StoreCall(w, op, i, val) ==
    /\ writers[w].pc = "idle"
    /\ Appended < MaxAppends
    /\ writers' = [writers EXCEPT ![w] = [pc |-> "lock", op |-> op, key |-> i, val |-> val]]
    /\ UNCHANGED <<mem, disk, tmp, boots>>

\* (a) the store-wide lock is acquired and (b) the in-memory document mutated
StoreAcquire(w) ==
    /\ writers[w].pc = "lock"
    /\ ~StoreLockHeld
    /\ mem' = Applied(mem, writers[w].op, StoreKeys[writers[w].key], writers[w].val)
    /\ Step(w, "write")
    /\ UNCHANGED <<disk, tmp, boots>>

\* (variant: the document is written over the canonical file itself)
WrittenInPlace(part) == [tmp |-> tmp, disk |-> part]

\* the files after `part` has been written: the writes go to the temporary file
Written(part) == [tmp |-> part, disk |-> disk]

\* (c) the entire document is serialized to the temporary file: the first half
StoreWriteTmp(w) ==
    /\ writers[w].pc = "write"
    /\ LET all == Serialize(mem)
           out == Written(SubSeq(all, 1, Len(all) \div 2))
       IN tmp' = out.tmp /\ disk' = out.disk
    /\ Step(w, "flush")
    /\ UNCHANGED <<mem, boots>>

\* (c) the rest of it
StoreFlushTmp(w) ==
    /\ writers[w].pc = "flush"
    /\ LET out == Written(Serialize(mem))
       IN tmp' = out.tmp /\ disk' = out.disk
    /\ Step(w, "rename")
    /\ UNCHANGED <<mem, boots>>

\* (d) the temporary file is renamed over the canonical file
StoreRename(w) ==
    /\ writers[w].pc = "rename"
    /\ disk' = tmp
    /\ tmp' = <<>>
    /\ Step(w, "release")
    /\ UNCHANGED <<mem, boots>>

\* (e) the lock is released
StoreRelease(w) ==
    /\ writers[w].pc = "release"
    /\ writers' = [writers EXCEPT ![w] = Idle]
    /\ UNCHANGED <<mem, disk, tmp, boots>>

\* the process stops at any point and starts again: the file is read fully
StoreRestart ==
    /\ boots < MaxBoots
    /\ boots' = boots + 1
    /\ writers' = [w \in Writers |-> Idle]
    /\ mem' = Load(disk)
    /\ UNCHANGED <<disk, tmp>>

offStore == <<file, rides, rideMsgs, logMsgs, prompts, ratingLog, reviews, reviewMsgs,
              notices, tasks, accepted, last, clicks, votes, voteMsgs, gameVars, feed>>

\* ------------------------------------------------------------ specifications
Running == BagToSet(tasks)

Next ==
    \/ \E u \in Riders : RequestRide(u)
    \/ clicks < MaxTasks /\ \E u \in Users, r \in DOMAIN rides : ClickClaim(u, r)
    \/ clicks < MaxTasks /\ \E u \in Users, r \in DOMAIN rides : ClickEnd(u, r)
    \/ clicks < MaxTasks /\ \E u \in Users, p \in DOMAIN prompts, s \in Scores : ClickRate(u, p, s)
    \/ \E k \in Running : ClaimEnter(k)
    \/ \E k \in Running : ClaimReply(k)
    \/ \E k \in Running : ClaimEdit(k)
    \/ \E k \in Running : ClaimAnnounce(k)
    \/ \E k \in Running : EndCheck(k)
    \/ \E k \in Running : EndEdit(k)
    \/ \E k \in Running : EndNotice(k)
    \/ \E k \in Running : EndLog(k)
    \/ \E k \in Running : EndPrompt(k)
    \/ \E k \in Running : RateSubmit(k)
    \/ \E k \in Running : RateEdit(k)
    \/ \E k \in Running : RateUpdateLog(k)
    \/ \E k \in Running : RateAudit(k)
    \/ \E k \in Running : Raise(k)

Spec == Init /\ [][Next]_vars

ReviewNext ==
    \/ \E u \in Users, c \in Kinds : SubmitReview(u, c)
    \/ clicks < MaxTasks /\ \E u \in Users, r \in DOMAIN reviews, b \in {"approve", "deny"} : ClickDecide(u, r, b)
    \/ \E k \in Running : DecideGuard(k)
    \/ \E k \in Running : DecideEdit(k)
    \/ \E k \in Running : DecideAnnounce(k)
    \/ \E k \in Running : Raise(k)

\* the review view exists in main.py only
ReviewInit == Init /\ file = "main.py"

ReviewSpec == ReviewInit /\ [][ReviewNext]_vars

\* One driver and one rider on one ride of main.py: the runs in which user 3 posts
\* the request, only driver 1 clicks Claim and End Ride, only the rider rates and
\* no call raises, with room for five clicks.
MaxPairClicks == 5

PairNext ==
    \/ RequestRide(3)
    \/ clicks < MaxPairClicks /\ \E r \in DOMAIN rides : ClickClaim(1, r)
    \/ clicks < MaxPairClicks /\ \E r \in DOMAIN rides : ClickEnd(1, r)
    \/ clicks < MaxPairClicks /\ \E p \in DOMAIN prompts, s \in Scores : ClickRate(3, p, s)
    \/ \E k \in Running : ClaimEnter(k)
    \/ \E k \in Running : ClaimReply(k)
    \/ \E k \in Running : ClaimEdit(k)
    \/ \E k \in Running : ClaimAnnounce(k)
    \/ \E k \in Running : EndCheck(k)
    \/ \E k \in Running : EndEdit(k)
    \/ \E k \in Running : EndLog(k)
    \/ \E k \in Running : EndPrompt(k)
    \/ \E k \in Running : RateSubmit(k)
    \/ \E k \in Running : RateEdit(k)
    \/ \E k \in Running : RateUpdateLog(k)
    \/ \E k \in Running : RateAudit(k)

PairSpec == ReviewInit /\ [][PairNext]_vars

\* One ride of main.py with every rating button: user 3 posts the request, driver 1
\* claims and ends it, and the rider and the driver click any of the five buttons.
MaxRateClicks == 4

RateNext ==
    \/ RequestRide(3)
    \/ clicks < MaxRateClicks /\ \E r \in DOMAIN rides : ClickClaim(1, r)
    \/ clicks < MaxRateClicks /\ \E r \in DOMAIN rides : ClickEnd(1, r)
    \/ clicks < MaxRateClicks
          /\ \E u \in {1, 3}, p \in DOMAIN prompts, b \in RateButtons :
                ClickRate(u, p, ButtonScore(b))
    \/ \E k \in Running : ClaimEnter(k)
    \/ \E k \in Running : ClaimReply(k)
    \/ \E k \in Running : ClaimEdit(k)
    \/ \E k \in Running : ClaimAnnounce(k)
    \/ \E k \in Running : EndCheck(k)
    \/ \E k \in Running : EndEdit(k)
    \/ \E k \in Running : EndLog(k)
    \/ \E k \in Running : EndPrompt(k)
    \/ \E k \in Running : RateSubmit(k)
    \/ \E k \in Running : RateEdit(k)
    \/ \E k \in Running : RateUpdateLog(k)
    \/ \E k \in Running : RateAudit(k)
    \/ \E k \in Running : Raise(k)

RateSpec == ReviewInit /\ [][RateNext]_vars

\* The Claim button alone on the requests of user 3, with every awaited call of
\* claim returning or raising in the end, and a free lock going to one of the
\* claims that wait for it.
MaxLockClicks == 3

LockNext ==
    \/ RequestRide(3)
    \/ clicks < MaxLockClicks /\ \E u \in Users, r \in DOMAIN rides : ClickClaim(u, r)
    \/ \E k \in Running : ClaimEnter(k)
    \/ \E k \in Running : ClaimReply(k)
    \/ \E k \in Running : ClaimEdit(k)
    \/ \E k \in Running : ClaimAnnounce(k)
    \/ \E k \in Running : Raise(k)

LockFairness ==
    /\ WF_vars(\E k \in Running : ClaimEnter(k))
    /\ WF_vars(\E k \in Running : ClaimReply(k))
    /\ WF_vars(\E k \in Running : ClaimEdit(k))
    /\ WF_vars(\E k \in Running : ClaimAnnounce(k))

LockSpec == Init /\ [][LockNext]_vars /\ LockFairness

\* Two ride requests of rider 3 and two allocation requests of user 1 side by side
\* in main.py, from the moment all four are posted: the clicks of the drivers 1
\* and 2 on Claim and End Ride, of the rider on a rating button and of reviewer
\* 2 on Accept and Deny.
MaxSideClicks == 3
SideDrivers == {1, 2}
SideReviewers == {2}

SideInit ==
    /\ file = "main.py"
    /\ rides = <<NewClaimView(3), NewClaimView(3)>>
    /\ rideMsgs = <<NewRideMsg, NewRideMsg>>
    /\ reviews = <<NewApproveDenyView("allocation", 1), NewApproveDenyView("allocation", 1)>>
    /\ reviewMsgs = <<NewReviewMsg, NewReviewMsg>>
    /\ logMsgs = <<>> /\ prompts = <<>> /\ ratingLog = <<>> /\ notices = <<>>
    /\ tasks = EmptyBag /\ accepted = EmptyBag /\ last = NoAnswer /\ clicks = 0
    /\ votes = <<>> /\ voteMsgs = <<>>
    /\ ingame = <<>> /\ dashboards = <<>> /\ ongoing = {} /\ ingameLogs = <<>>
    /\ feed = <<>>
    /\ StoreInit

SideNext ==
    \/ clicks < MaxSideClicks /\ \E u \in SideDrivers, r \in DOMAIN rides : ClickClaim(u, r)
    \/ clicks < MaxSideClicks /\ \E u \in SideDrivers, r \in DOMAIN rides : ClickEnd(u, r)
    \/ clicks < MaxSideClicks /\ \E p \in DOMAIN prompts : ClickRate(3, p, MaxScore)
    \/ clicks < MaxSideClicks /\ \E u \in SideReviewers, r \in DOMAIN reviews, b \in {"approve", "deny"} : ClickDecide(u, r, b)
    \/ \E k \in Running : ClaimEnter(k)
    \/ \E k \in Running : ClaimReply(k)
    \/ \E k \in Running : ClaimEdit(k)
    \/ \E k \in Running : ClaimAnnounce(k)
    \/ \E k \in Running : EndCheck(k)
    \/ \E k \in Running : EndEdit(k)
    \/ \E k \in Running : EndLog(k)
    \/ \E k \in Running : EndPrompt(k)
    \/ \E k \in Running : RateSubmit(k)
    \/ \E k \in Running : RateEdit(k)
    \/ \E k \in Running : RateUpdateLog(k)
    \/ \E k \in Running : RateAudit(k)
    \/ \E k \in Running : DecideGuard(k)
    \/ \E k \in Running : DecideEdit(k)
    \/ \E k \in Running : DecideAnnounce(k)
    \/ \E k \in Running : Raise(k)

SideSpec == SideInit /\ [][SideNext]_vars

\* The suggestions of main.py, their votes, and a restart of the process.
VoteNext ==
    \/ \E u \in Users : Len(voteMsgs) < MaxSuggestions /\ SuggestPost(u)
    \/ clicks < MaxVoteClicks /\ \E u \in Users, m \in DOMAIN voteMsgs, side \in Sides : ClickVote(u, m, side)
    \/ clicks < MaxVoteClicks /\ \E u \in Users, m \in DOMAIN voteMsgs : ClickList(u, m)
    \/ \E k \in Running : SuggestInit(k)
    \/ \E k \in Running : SuggestBind(k)
    \/ \E k \in Running : VoteToggle(k)
    \/ \E k \in Running : VoteEdit(k)
    \/ \E k \in Running : VoteList(k)
    \/ \E k \in Running : ListReply(k)
    \/ \E k \in Running : Raise(k)
    \/ Restart

VoteSpec == ReviewInit /\ [][VoteNext]_vars

\* The votes of two users on the suggestions of user 1, with restarts; no call
\* raises and nobody lists the voters.
MaxToggleClicks == 2
Voters2 == {1, 2}

ToggleNext ==
    \/ Len(voteMsgs) < MaxSuggestions /\ SuggestPost(1)
    \/ clicks < MaxToggleClicks /\ \E u \in Voters2, m \in DOMAIN voteMsgs, side \in Sides : ClickVote(u, m, side)
    \/ \E k \in Running : SuggestInit(k)
    \/ \E k \in Running : SuggestBind(k)
    \/ \E k \in Running : VoteToggle(k)
    \/ \E k \in Running : VoteEdit(k)
    \/ Restart

ToggleSpec == ReviewInit /\ [][ToggleNext]_vars

\* The in-game rides of main.py.
GameNext ==
    \/ \E u \in Users : Len(dashboards) < MaxIngameRides /\ IngameStart(u)
    \/ clicks < MaxGameClicks /\ \E u \in Users, m \in DOMAIN dashboards : ClickIngameEnd(u, m)
    \/ \E k \in Running : IngameAdd(k)
    \/ \E k \in Running : IngameEndCheck(k)
    \/ \E k \in Running : IngameEndEnter(k)
    \/ \E k \in Running : IngameEndSettle(k)
    \/ \E k \in Running : IngameEndDelete(k)
    \/ \E k \in Running : IngameEndEdit(k)
    \/ \E k \in Running : IngameRaise(k)

GameSpec == ReviewInit /\ [][GameNext]_vars

\* The slash commands, invoked in the bot's guild and in another one.
AllCommands == {"request ride", "ride start", "allocation", "permission", "promote",
                "infract", "suggest", "blacklist", "log-ride"}

Posted == Len(rides) + Len(reviews) + Len(dashboards) + Len(voteMsgs) + Len(feed)

CommandNext ==
    \/ /\ Posted < MaxPosts
       /\ \E c \in AllCommands, g \in Guilds, u \in Users : Command(c, g, u)
    \/ \E k \in Running : SuggestInit(k)
    \/ \E k \in Running : SuggestBind(k)
    \/ \E k \in Running : IngameAdd(k)

CommandSpec == Init /\ [][CommandNext]_vars

\* The ProfileStore: appends, their write cycles and restarts.
StoreNext ==
    /\ \/ \E w \in Writers, op \in Ops, i \in DOMAIN StoreKeys :
             /\ \A v \in Writers : v < w => writers[v].pc # "idle"
             /\ op = "append_rating" => StoreKeys[i].role = "drivers"
             /\ \E val \in Values(op) : StoreCall(w, op, i, val)
       \/ \E w \in Writers : StoreAcquire(w)
       \/ \E w \in Writers : StoreWriteTmp(w)
       \/ \E w \in Writers : StoreFlushTmp(w)
       \/ \E w \in Writers : StoreRename(w)
       \/ \E w \in Writers : StoreRelease(w)
       \/ StoreRestart
    /\ UNCHANGED offStore

StoreSpec == ReviewInit /\ [][StoreNext]_vars

\* ------------------------------------------------------------ reading the state
\* the request's status, from the fields of its ClaimView
Status(v) ==
    IF v.claimed_by = None THEN "Open"
    ELSE IF v.end_disabled THEN "Completed"
    ELSE "Claimed"

Rank(st) == CASE st = "Open" -> 0 [] st = "Claimed" -> 1 [] OTHER -> 2

RECURSIVE Copies(_, _)
Copies(S, B) ==
    IF S = {} THEN 0
    ELSE LET e == CHOOSE x \in S : TRUE
         IN CopiesIn(e, B) + Copies(S \ {e}, B)

\* the accepted clicks on buttons K of view x, and their number
AcceptedOn(K, x) == {a \in BagToSet(accepted) : a.kind \in K /\ a.tgt = x}
Wins(K, x) == Copies(AcceptedOn(K, x), accepted)

PromptsOf(r) == {p \in DOMAIN prompts : prompts[p].ride = r}
LogsOf(r) == {m \in DOMAIN logMsgs : logMsgs[m].ride = r}
\* the accepted ratings of ride r, over all its prompts
RatingsOf(r) ==
    Copies({a \in BagToSet(accepted) : a.kind = "rate" /\ a.tgt \in PromptsOf(r)}, accepted)

\* the handler task k has left position "start" or "defer" in this step
Leaves(k) == CopiesIn(k, tasks') < CopiesIn(k, tasks)

\* ------------------------------------------------------------ claims
\* C1  Single winner: of the claims on one request at most one is accepted; an
\* authorized actor's claim is answered Ok or "already claimed", the latter only
\* when a claim has won; claimed_by is set exactly when a claim has won, to the
\* winner's id.
C1_SingleWinner ==
    \A r \in DOMAIN rides :
        /\ Wins({"claim"}, r) <= 1
        /\ (rides[r].claimed_by # None) <=> (Wins({"claim"}, r) = 1)
        /\ \A a \in AcceptedOn({"claim"}, r) : rides[r].claimed_by = a.user
        /\ (last.kind = "claim" /\ last.tgt = r /\ has_driver_role(last.user))
              => \/ last.res = "Ok"
                 \/ last.res = "AlreadyClaimed" /\ Wins({"claim"}, r) = 1

\* two distinct drivers have claimed the same request: one won, the other was refused
C1_Witness ==
    \E r \in DOMAIN rides :
        /\ last.kind = "claim" /\ last.tgt = r /\ last.res = "AlreadyClaimed"
        /\ has_driver_role(last.user)
        /\ rides[r].claimed_by \notin {None, last.user}
        /\ Wins({"claim"}, r) = 1

\* C2  One-shot completion: a request has at most one accepted End Ride, at most
\* one Ride Log entry and at most one rating prompt.
C2_OneShotCompletion ==
    \A r \in DOMAIN rides :
        /\ Wins({"end"}, r) <= 1
        /\ Cardinality(LogsOf(r)) <= 1
        /\ Cardinality(PromptsOf(r)) <= 1

\* C3  Monotonic claim: in every step claimed_by changes only from None to a
\* value, the status never goes back, and a Claimed request leaves Claimed only
\* by an End Ride of its claimant that is accepted in that step.
C3_MonotonicClaim ==
    [][\A r \in DOMAIN rides :
          /\ rides[r].claimed_by # None => rides'[r].claimed_by = rides[r].claimed_by
          /\ Rank(Status(rides'[r])) >= Rank(Status(rides[r]))
          /\ (Status(rides[r]) = "Claimed" /\ Status(rides'[r]) # "Claimed")
                => /\ Status(rides'[r]) = "Completed"
                   /\ last' = [kind |-> "end", user |-> rides[r].claimed_by,
                               tgt |-> r, res |-> "Ok"]
                   /\ Wins({"end"}, r)' = Wins({"end"}, r) + 1]_vars

\* a Completed request on which a late claim of another driver was refused
C3_Witness ==
    \E r \in DOMAIN rides :
        /\ Status(rides[r]) = "Completed"
        /\ last.kind = "claim" /\ last.tgt = r /\ last.res = "AlreadyClaimed"
        /\ last.user # rides[r].claimed_by

\* C4  Ordering: every accepted End Ride of actor A on request R comes with an
\* accepted claim of A on R.
C4_CompleteAfterClaim ==
    \A a \in BagToSet(accepted) :
        a.kind = "end" =>
            [kind |-> "claim", user |-> a.user, tgt |-> a.tgt, score |-> 0]
                \in BagToSet(accepted)

\* an End Ride was accepted, and an End Ride of another user was refused
C4_Witness ==
    \E a \in BagToSet(accepted) :
        /\ a.kind = "end"
        /\ last.kind = "end" /\ last.tgt = a.tgt /\ last.res = "WrongActor"

\* C5  Rating uniqueness per request: over all the prompts of one ride, at most
\* one rating is accepted.
C5_RatingUnique ==
    \A r \in DOMAIN rides : RatingsOf(r) <= 1

\* C6  Rating idempotence: once a rating of a ride is accepted, a later one by the
\* rider is not; the ride has at most one rating audit entry, and its Ride Log
\* Rating fields and audit entries show one score only.
C6_RatingIdempotence ==
    \A r \in DOMAIN rides :
        LET audits == {i \in DOMAIN ratingLog : prompts[ratingLog[i].prompt].ride = r}
            shown == {logMsgs[m].rating : m \in LogsOf(r)} \ {NA}
            recorded == shown \cup {ratingLog[i].score : i \in audits}
        IN /\ (last.kind = "rate" /\ last.tgt \in PromptsOf(r) /\ last.res = "Ok")
                => RatingsOf(r) = 1
           /\ Cardinality(audits) <= 1
           /\ Cardinality(recorded) <= 1

\* C7  Only the requester rates: every accepted rating is by the rider who posted
\* the request; a rating click of any other user is answered "Unauthorized" and
\* changes neither the prompt, nor a Ride Log entry, nor the rating audit log.
C7_OnlyRiderRates ==
    /\ [](\A a \in BagToSet(accepted) :
             a.kind = "rate" =>
                 /\ a.user = prompts[a.tgt].rider_id
                 /\ a.user = rides[prompts[a.tgt].ride].requester_id)
    /\ [][\A k \in BagToSet(tasks) :
             (/\ k.kind = "rate" /\ k.pc = "start"
              /\ k.user # rides[prompts[k.tgt].ride].requester_id
              /\ Leaves(k))
             => /\ last' = Answer(k, "Unauthorized")
                /\ prompts' = prompts /\ logMsgs' = logMsgs /\ ratingLog' = ratingLog
                /\ accepted' = accepted]_vars

\* a rating click of a user who is not the rider was refused on a posted prompt
C7_Witness ==
    /\ last.kind = "rate" /\ last.res = "Unauthorized"
    /\ last.tgt \in DOMAIN prompts
    /\ last.user # prompts[last.tgt].rider_id

\* C8  Rating only after completion: a rating prompt, a rating click and an
\* accepted rating exist only for a request that is Completed by an accepted End
\* Ride of the prompt's driver.
C8_RatingAfterCompletion ==
    /\ \A p \in DOMAIN prompts :
          /\ Status(rides[prompts[p].ride]) = "Completed"
          /\ [kind |-> "end", user |-> prompts[p].driver_id,
              tgt |-> prompts[p].ride, score |-> 0] \in BagToSet(accepted)
    /\ \A k \in BagToSet(tasks) : k.kind = "rate" => k.tgt \in DOMAIN prompts
    /\ \A a \in BagToSet(accepted) : a.kind = "rate" => a.tgt \in DOMAIN prompts

\* a rating was accepted
C8_Witness ==
    \E a \in BagToSet(accepted) :
        /\ a.kind = "rate"
        /\ Status(rides[prompts[a.tgt].ride]) = "Completed"

\* C9  Review finality: finalized is never unset and a shown decision never
\* changes; a reviewer's click on a finalized request is answered "already
\* processed" and changes nothing; the shown decision is the accepted one.
Buttons == {"approve", "deny"}

C9_ReviewFinality ==
    /\ [](\A r \in DOMAIN reviews : \A a \in AcceptedOn(Buttons, r) :
             reviewMsgs[r].status \in {"Pending", Decision(a.kind)})
    /\ [][\A r \in DOMAIN reviews :
             /\ reviews[r].finalized => reviews'[r].finalized
             /\ reviewMsgs[r].status # "Pending"
                   => reviewMsgs'[r].status = reviewMsgs[r].status
             /\ \A k \in BagToSet(tasks) :
                   (/\ k.kind \in Buttons /\ k.tgt = r /\ k.pc = "start"
                    /\ reviews[r].finalized /\ is_reviewer(k.user)
                    /\ Leaves(k))
                   => /\ last' = Answer(k, "AlreadyFinalized")
                      /\ accepted' = accepted /\ reviews' = reviews
                      /\ reviewMsgs' = reviewMsgs]_vars

\* Accept by one reviewer was accepted and shown, then Deny by another reviewer
\* was refused as already processed
C9_Witness ==
    \E r \in DOMAIN reviews : \E a \in AcceptedOn({"approve"}, r) :
        /\ reviewMsgs[r].status = "Accepted"
        /\ last = [kind |-> "deny", user |-> last.user, tgt |-> r,
                   res |-> "AlreadyFinalized"]
        /\ is_reviewer(last.user) /\ last.user # a.user

\* C10  Linearizable decide: of the Accept / Deny clicks on one request at most
\* one is accepted, finalized is set exactly when one was, a reviewer's click is
\* accepted or answered "already processed" after the winner, and the only
\* announcement is the winner's decision.
C10_LinearizableDecide ==
    \A r \in DOMAIN reviews :
        LET sent == {i \in DOMAIN notices : notices[i].review = r}
        IN /\ Wins(Buttons, r) <= 1
           /\ reviews[r].finalized <=> (Wins(Buttons, r) = 1)
           /\ Cardinality(sent) <= 1
           /\ \A i \in sent : \E a \in AcceptedOn(Buttons, r) :
                 /\ notices[i].decision = Decision(a.kind)
                 /\ notices[i].reviewer = a.user
           /\ (last.kind \in Buttons /\ last.tgt = r /\ is_reviewer(last.user))
                 => \/ last.res = "Ok"
                    \/ last.res = "AlreadyFinalized" /\ Wins(Buttons, r) = 1

\* a second reviewer's click was refused while the winner's handler was still
\* waiting for its message edit
C10_Witness ==
    \E r \in DOMAIN reviews : \E k \in BagToSet(tasks) :
        /\ k.kind \in Buttons /\ k.tgt = r /\ k.pc = "edit"
        /\ last.kind \in Buttons /\ last.tgt = r /\ last.res = "AlreadyFinalized"
        /\ is_reviewer(last.user) /\ last.user # k.user
        /\ reviewMsgs[r].status = "Pending"

\* C11  Unauthorized claim: the claimant of a request always holds a driver role;
\* a Claim click of a user without one is answered "Unauthorized", whatever the
\* status (or its defer() raises and it is not answered), and leaves the
\* ClaimView's fields but its lock as they were.
HoldsDriverRole(u) ==
    IF file = "Main.py" THEN user_has_allowed_role(u) ELSE has_driver_role(u)

C11_UnauthorizedClaim ==
    /\ [](\A r \in DOMAIN rides :
             /\ rides[r].claimed_by # None => HoldsDriverRole(rides[r].claimed_by)
             /\ \A a \in AcceptedOn({"claim"}, r) : HoldsDriverRole(a.user))
    /\ [][\A k \in BagToSet(tasks) :
             (k.kind = "claim" /\ k.pc = "defer" /\ ~HoldsDriverRole(k.user) /\ Leaves(k))
             => /\ \/ /\ last' = Answer(k, "Unauthorized")
                      /\ rides'[k.tgt] = [rides[k.tgt] EXCEPT !.lock = TRUE]
                   \/ /\ last' = last
                      /\ rides' = rides
                /\ accepted' = accepted
                /\ Status(rides'[k.tgt]) = Status(rides[k.tgt])
                /\ rideMsgs' = rideMsgs]_vars

\* a user without a driver role was refused on a request that is still open
C11_Witness ==
    /\ last.kind = "claim" /\ last.res = "Unauthorized"
    /\ ~HoldsDriverRole(last.user)
    /\ last.tgt \in DOMAIN rides
    /\ Status(rides[last.tgt]) = "Open"

\* C12  Complete error outcomes: End Ride on a request without claimant is answered
\* "NotClaimed", End Ride by another user than the claimant "WrongActor" (unless
\* its defer() raises and it is not answered); either way the handler is over,
\* nothing of the request changes, and Ride Logs and rating prompts only come from
\* accepted End Rides.
C12_CompleteErrors ==
    /\ [](\A r \in DOMAIN rides :
             /\ Cardinality(LogsOf(r)) <= Wins({"end"}, r)
             /\ Cardinality(PromptsOf(r)) <= Wins({"end"}, r))
    /\ [][\A k \in BagToSet(tasks) :
             (/\ k.kind = "end" /\ k.pc = "defer" /\ Leaves(k)
              /\ rides[k.tgt].claimed_by # k.user)
             => /\ \/ last' = Answer(k, IF rides[k.tgt].claimed_by = None
                                        THEN "NotClaimed" ELSE "WrongActor")
                   \/ last' = last
                /\ tasks' = Take(tasks, k)
                /\ accepted' = accepted
                /\ rides' = rides /\ rideMsgs' = rideMsgs
                /\ logMsgs' = logMsgs /\ prompts' = prompts]_vars

\* a driver who is not the claimant was refused on a claimed request, which has
\* neither Ride Log nor rating prompt
C12_Witness ==
    /\ last.kind = "end" /\ last.res = "WrongActor"
    /\ last.tgt \in DOMAIN rides
    /\ Status(rides[last.tgt]) = "Claimed"
    /\ HoldsDriverRole(last.user)
    /\ LogsOf(last.tgt) = {} /\ PromptsOf(last.tgt) = {}

\* C13  Unauthorized decide: only reviewers' clicks are accepted; an Accept or
\* Deny of a user who is not a reviewer is answered "Unauthorized" and changes
\* neither finalized nor the shown status, and a reviewer's click on a request
\* that is not finalized is accepted.
C13_UnauthorizedDecide ==
    /\ [](\A a \in BagToSet(accepted) : a.kind \in Buttons => is_reviewer(a.user))
    /\ [][\A k \in BagToSet(tasks) :
             (k.kind \in Buttons /\ k.pc = "start" /\ Leaves(k))
             => /\ ~is_reviewer(k.user)
                   => /\ last' = Answer(k, "Unauthorized")
                      /\ tasks' = Take(tasks, k)
                      /\ accepted' = accepted /\ reviews' = reviews
                      /\ reviewMsgs' = reviewMsgs /\ notices' = notices
                /\ (is_reviewer(k.user) /\ ~reviews[k.tgt].finalized)
                   => /\ last' = Answer(k, "Ok")
                      /\ reviews'[k.tgt].finalized]_vars

\* a user who is not a reviewer was refused, the request is pending, and a
\* reviewer's click on it is waiting
C13_Witness ==
    /\ last.kind \in Buttons /\ last.res = "Unauthorized" /\ ~is_reviewer(last.user)
    /\ last.tgt \in DOMAIN reviews
    /\ ~reviews[last.tgt].finalized
    /\ reviewMsgs[last.tgt].status = "Pending"
    /\ \E k \in BagToSet(tasks) :
          k.kind \in Buttons /\ k.tgt = last.tgt /\ k.pc = "start" /\ is_reviewer(k.user)

\* C14  Notifications never block core progress: whether the delivery of the Ride
\* Log entry succeeds or fails, End Ride's handler goes on from it to the rating
\* prompt.
C14_NotificationsNeverBlock ==
    [][\A k \in BagToSet(tasks) :
          (k.kind = "end" /\ k.pc = "log" /\ Leaves(k))
          => LET n == [k EXCEPT !.pc = "prompt"]
             IN CopiesIn(n, tasks') = CopiesIn(n, tasks) + 1]_vars

\* C15  Independence of requests: a step of a handler changes the view, the
\* message, the Ride Logs and the rating prompts of its own request only, and a
\* handler can only be kept waiting by a Claim handler that holds the lock of the
\* same request.
RideOf(k) ==
    IF k.kind \in {"claim", "end"} THEN k.tgt
    ELSE IF k.kind = "rate" THEN prompts[k.tgt].ride
    ELSE None

ReviewOf(k) == IF k.kind \in Buttons THEN k.tgt ELSE None

\* the next step of handler k in which no call raises
Proceed(k) ==
    \/ ClaimEnter(k) \/ ClaimReply(k) \/ ClaimEdit(k) \/ ClaimAnnounce(k)
    \/ EndCheck(k) \/ EndEdit(k) \/ EndNotice(k) \/ EndLog(k) \/ EndPrompt(k)
    \/ RateSubmit(k) \/ RateEdit(k) \/ RateUpdateLog(k) \/ RateAudit(k)
    \/ DecideGuard(k) \/ DecideEdit(k) \/ DecideAnnounce(k)

C15_Independence ==
    /\ [](\A k \in BagToSet(tasks) :
             ~ENABLED Proceed(k)
             => /\ k.kind = "claim" /\ k.pc = "defer"
                /\ \E h \in BagToSet(tasks) : HoldsLock(h) /\ h.tgt = k.tgt)
    /\ [][\A k \in BagToSet(tasks) :
             Leaves(k)
             => /\ \A r \in DOMAIN rides :
                      r # RideOf(k)
                      => /\ rides'[r] = rides[r]
                         /\ rideMsgs'[r] = rideMsgs[r]
                         /\ PromptsOf(r)' = PromptsOf(r)
                         /\ LogsOf(r)' = LogsOf(r)
                         /\ \A p \in PromptsOf(r) : prompts'[p] = prompts[p]
                         /\ \A m \in LogsOf(r) : logMsgs'[m] = logMsgs[m]
                /\ \A r \in DOMAIN reviews :
                      r # ReviewOf(k)
                      => /\ reviews'[r] = reviews[r]
                         /\ reviewMsgs'[r] = reviewMsgs[r]
                         /\ {i \in DOMAIN notices' : notices'[i].review = r}
                               = {i \in DOMAIN notices : notices[i].review = r}]_vars

\* a Claim on one request was accepted while the Claim handler of another request
\* held that request's lock
C15_Witness ==
    \E h, g \in BagToSet(tasks) :
        /\ h.kind = "claim" /\ HoldsLock(h)
        /\ g.kind = "claim" /\ g.pc = "edit" /\ g.tgt # h.tgt
        /\ last = Answer(g, "Ok")
        /\ rides[h.tgt].claimed_by = h.user

\* C16  Restart survivability: the voters recorded for a suggestion change only by
\* a vote on that suggestion or by the /suggest command that posts it; no other
\* step, a restart of the process included, changes what the next vote on it is
\* decided from.
C16_RestartSurvivability ==
    [][\A m \in DOMAIN voteMsgs :
          Ensure(m)' # Ensure(m)
          => \E k \in BagToSet(tasks) :
                \/ /\ k.kind \in Sides /\ k.tgt = m /\ k.pc = "start"
                   /\ Leaves(k) /\ last' = Answer(k, last'.res)
                \/ /\ k.kind = "suggest" /\ k.tgt = m /\ k.pc = "init"
                   /\ CopiesIn([k EXCEPT !.pc = "bind"], tasks')
                         > CopiesIn([k EXCEPT !.pc = "bind"], tasks)]_vars

\* C18  In-game dashboard deletion: when End Ride of the driver has logged the
\* ride, the dashboard is deleted if and only if no other in-game ride is still
\* ongoing (started, and not ended by its driver); otherwise it is kept and set
\* to Completed.
StillOngoing(m) == m \in DOMAIN dashboards /\ Wins({"ingame_end"}, m) = 0

C17_GuildRestriction ==
    [][\A c \in AllCommands, u \in Users, g \in Guilds \ {GUILD_ID} :
          Command(c, g, u)
          => /\ last' = [kind |-> c, user |-> u, tgt |-> g, res |-> last'.res]
             /\ last'.res \in {"NotFound", "WrongGuild", "Disabled"}
             /\ rides' = rides /\ rideMsgs' = rideMsgs
             /\ reviews' = reviews /\ reviewMsgs' = reviewMsgs
             /\ ingame' = ingame /\ dashboards' = dashboards /\ ongoing' = ongoing
             /\ voteMsgs' = voteMsgs /\ votes' = votes
             /\ logMsgs' = logMsgs /\ ingameLogs' = ingameLogs
             /\ notices' = notices /\ feed' = feed
             /\ tasks' = tasks]_vars

\* /request ride of main.py, whose handler has no guild check, was invoked in
\* another guild while the same command has posted a request in the bot's guild
C17_Witness ==
    /\ file = "main.py"
    /\ last.kind = "request ride" /\ last.tgt # GUILD_ID /\ last.res = "NotFound"
    /\ Len(rides) = 1

\* C19  Atomic-write crash safety: the canonical file always holds a whole
\* document, and it changes only by the rename of a wholly written temporary
\* file; a write cycle interrupted before its rename leaves it as it was.
C19_AtomicWrite ==
    /\ [](Complete(disk))
    /\ [][disk' # disk
          => \E w \in Writers :
                /\ writers[w].pc = "rename" /\ writers'[w].pc = "release"
                /\ disk' = tmp /\ tmp = Serialize(mem)]_vars

\* the process was restarted after the temporary file was written and before
\* the rename: the temporary file holds the new document, the canonical file
\* still the one before the write
C19_Witness ==
    /\ boots > 0
    /\ Complete(tmp) /\ Load(tmp) # EmptyDoc
    /\ disk = Serialize(EmptyDoc)
    /\ mem = EmptyDoc

\* every write cycle begun has completed
Persisted == \A w \in Writers : writers[w].pc \in {"idle", "lock", "release"}

\* C20  Store round-trip: when the document has been persisted, reloading the
\* store gives every subject the same history, in the same order, and the same
\* aggregate as in memory.
C20_RoundTrip ==
    [][(boots' # boots /\ Persisted)
       => /\ DOMAIN mem' = DOMAIN mem
          /\ \A k \in DOMAIN mem :
                /\ mem'[k].history = mem[k].history
                /\ mem'[k].aggregate = mem[k].aggregate]_vars

\* three ride entries, not all the same, and a rating of one subject were
\* appended and persisted, and the store was reloaded
C20_Witness ==
    /\ boots > 0
    /\ Persisted
    /\ \E k \in DOMAIN mem :
          /\ Len(mem[k].history) = 3
          /\ mem[k].history[1] # mem[k].history[3]
          /\ mem[k].aggregate.count = 1

\* C21  Score bounds: the score of every rating click, of every accepted rating,
\* of every rating audit entry and of every Rating field of a Ride Log entry is
\* an integer in 1..5.
C21_ScoreBounds ==
    /\ \A k \in BagToSet(tasks) : k.kind = "rate" => k.score \in 1..MaxScore
    /\ \A a \in BagToSet(accepted) : a.kind = "rate" => a.score \in 1..MaxScore
    /\ \A i \in DOMAIN ratingLog : ratingLog[i].score \in 1..MaxScore
    /\ \A m \in DOMAIN logMsgs : logMsgs[m].rating \in {NA} \cup (1..MaxScore)

\* the lowest score was accepted, audited and shown on the Ride Log entry
C21_Witness ==
    /\ \E a \in BagToSet(accepted) : a.kind = "rate" /\ a.score = 1
    /\ \E i \in DOMAIN ratingLog : ratingLog[i].score = 1
    /\ \E m \in DOMAIN logMsgs : logMsgs[m].rating = 1

\* C22  A failed claim is final: once a request has a claimant, a Claim click of
\* a user with a driver role, the claimant included, is answered "AlreadyClaimed"
\* (or its defer() raises and it is not answered); it is not accepted, and the
\* claimant stays who it was in that step and in every later step.
C22_FailedClaimFinal ==
    /\ [][\A k \in BagToSet(tasks) :
             (/\ k.kind = "claim" /\ k.pc = "defer" /\ Leaves(k)
              /\ HoldsDriverRole(k.user)
              /\ rides[k.tgt].claimed_by # None)
             => /\ last' = Answer(k, "AlreadyClaimed") \/ last' = last
                /\ accepted' = accepted
                /\ rides'[k.tgt].claimed_by = rides[k.tgt].claimed_by]_vars
    /\ [][\A r \in DOMAIN rides :
             rides[r].claimed_by # None
             => rides'[r].claimed_by = rides[r].claimed_by]_vars

\* the claimant clicked Claim again on its own request and was refused
C22_Witness ==
    /\ last.kind = "claim" /\ last.res = "AlreadyClaimed"
    /\ last.tgt \in DOMAIN rides
    /\ rides[last.tgt].claimed_by = last.user

\* C23  Error precedence in claim: the role is checked before the status, so a
\* Claim click of a user without a driver role on a request that has a claimant
\* is answered "Unauthorized" (or its defer() raises and it is not answered), and
\* "AlreadyClaimed" is only ever the answer to a user with a driver role.
C23_ErrorPrecedence ==
    /\ [](last.kind = "claim" /\ last.res = "AlreadyClaimed"
             => HoldsDriverRole(last.user))
    /\ [][\A k \in BagToSet(tasks) :
             (/\ k.kind = "claim" /\ k.pc = "defer" /\ Leaves(k)
              /\ ~HoldsDriverRole(k.user)
              /\ rides[k.tgt].claimed_by # None)
             => last' = Answer(k, "Unauthorized") \/ last' = last]_vars

\* a user without a driver role was refused on a request that has a claimant
C23_Witness ==
    /\ last.kind = "claim" /\ last.res = "Unauthorized"
    /\ ~HoldsDriverRole(last.user)
    /\ last.tgt \in DOMAIN rides
    /\ rides[last.tgt].claimed_by # None

\* C24  No rollback after commit: a claim that has set the claimant and is at
\* one of its notification calls has its user as claimant; when the handler ends
\* there, by the call raising or returning, the request still has that claimant,
\* is not Open, and the request's lock is free.
C24_NoRollback ==
    /\ [](\A k \in BagToSet(tasks) :
             (k.kind = "claim" /\ k.pc \in {"edit", "announce"})
             => rides[k.tgt].claimed_by = k.user /\ rides[k.tgt].lock)
    /\ [][\A k \in BagToSet(tasks) :
             (/\ k.kind = "claim" /\ k.pc \in {"edit", "announce"} /\ Leaves(k)
              /\ \A n \in BagToSet(tasks') : n.kind = "claim" /\ n.tgt = k.tgt
                                             => n.pc = "defer")
             => /\ rides'[k.tgt].claimed_by = k.user
                /\ Status(rides'[k.tgt]) # "Open"
                /\ ~rides'[k.tgt].lock]_vars

\* the message edit of an accepted claim raised: the request has its claimant,
\* its lock is free, and its message still shows it unclaimed
C24_Witness ==
    \E r \in DOMAIN rides :
        /\ rides[r].claimed_by # None /\ ~rides[r].lock
        /\ rideMsgs[r].status = "Unclaimed"
        /\ \A k \in BagToSet(tasks) : ~(k.kind = "claim" /\ k.tgt = r)

\* a claim of user u on request r waits for the lock
Waiting(u, r) ==
    \E k \in BagToSet(tasks) :
        k.kind = "claim" /\ k.user = u /\ k.tgt = r /\ k.pc = "defer"

\* the lock of request r is held
Locked(r) == r \in DOMAIN rides /\ rides[r].lock

\* a claim is inside the lock of request r
Inside(r) == \E k \in BagToSet(tasks) : HoldsLock(k) /\ k.tgt = r

\* C25  Claim lock liveness: the lock of a request is held only while a claim is
\* inside it, on whichever path; when every awaited call returns or raises in the
\* end, a held lock is freed again and every claim that waits for it gets in
\* and is answered.
C25_LockLiveness ==
    /\ [](\A r \in DOMAIN rides : rides[r].lock <=> Inside(r))
    /\ \A r \in 1..MaxRides : Locked(r) ~> ~Locked(r)
    /\ \A u \in Users, r \in 1..MaxRides : Waiting(u, r) ~> ~Waiting(u, r)

\* a claim waits while another claim on the same request is inside the lock,
\* about to be refused
C25_Witness ==
    \E k, h \in BagToSet(tasks) :
        /\ k.kind = "claim" /\ k.pc = "defer"
        /\ h.kind = "claim" /\ h.pc = "reply" /\ h.tgt = k.tgt
        /\ rides[k.tgt].lock

\* C26  Ride Log rating field: a Ride Log entry is created with Rating "N/A";
\* the field changes only from "N/A", only to the score of an accepted rating of
\* that ride's rider on a prompt of that ride, and never changes again.
C26_RideLogRating ==
    [][\A m \in DOMAIN logMsgs' :
          IF m \notin DOMAIN logMsgs THEN logMsgs'[m].rating = NA
          ELSE logMsgs'[m].rating # logMsgs[m].rating
               => /\ logMsgs[m].rating = NA
                  /\ \E a \in BagToSet(accepted) :
                        /\ a.kind = "rate" /\ a.score = logMsgs'[m].rating
                        /\ prompts[a.tgt].ride = logMsgs[m].ride
                        /\ a.user = rides[logMsgs[m].ride].requester_id]_vars

\* C27  Finalized implies decided: a review request that is finalized, with no
\* Accept or Deny handler still at work on it, shows a decision on its message
\* and has that decision announced with its reviewer.
C27_FinalizedImpliesDecided ==
    \A r \in DOMAIN reviews :
        (/\ reviews[r].finalized
         /\ \A k \in BagToSet(tasks) : ~(k.kind \in {"approve", "deny"} /\ k.tgt = r))
        => /\ reviewMsgs[r].status \in {"Accepted", "Denied"}
           /\ \E i \in DOMAIN notices :
                 /\ notices[i].review = r
                 /\ notices[i].decision = reviewMsgs[r].status

\* C28  In-game end authorization: every In-Game Ride Log entry is by the driver
\* who started the ride; End Ride on a dashboard by any other user is answered
\* "WrongActor" (or its defer() raises and it is not answered) and posts no log
\* entry, leaves ongoing_message_ids as it is, and neither deletes nor edits a
\* dashboard.
C28_IngameEndAuthorization ==
    /\ [](\A i \in DOMAIN ingameLogs :
             ingameLogs[i].driver = ingame[ingameLogs[i].dashboard].driver_id)
    /\ [][\A k \in BagToSet(tasks) :
             (/\ k.kind = "ingame_end" /\ k.pc = "defer" /\ Leaves(k)
              /\ k.user # ingame[k.tgt].driver_id)
             => /\ last' = Answer(k, "WrongActor") \/ last' = last
                /\ accepted' = accepted
                /\ ingameLogs' = ingameLogs /\ ongoing' = ongoing
                /\ dashboards' = dashboards /\ ingame' = ingame
                /\ \A n \in BagToSet(tasks') : CopiesIn(n, tasks') <= CopiesIn(n, tasks)]_vars

\* End Ride of another user than the driver was refused on a dashboard whose
\* ride is ongoing
C28_Witness ==
    /\ last.kind = "ingame_end" /\ last.res = "WrongActor"
    /\ last.tgt \in ongoing
    /\ last.user # ingame[last.tgt].driver_id
    /\ ~dashboards[last.tgt].deleted /\ dashboards[last.tgt].status = "In Progress"

\* C29  In-game one-shot end: each in-game ride has at most one In-Game Ride Log
\* entry.
C29_IngameOneShotEnd ==
    \A m \in DOMAIN dashboards :
        Cardinality({i \in DOMAIN ingameLogs : ingameLogs[i].dashboard = m}) <= 1

Voted(k) ==
    {n \in BagToSet(tasks') :
        /\ n.kind = k.kind /\ n.user = k.user /\ n.tgt = k.tgt
        /\ n.pc \in {"edit", "edit_temp"}
        /\ CopiesIn(n, tasks') > CopiesIn(n, tasks)}

\* C31  Vote toggle semantics: a vote of user u on a side takes u off the other
\* side, and takes u off the side if u was on it and puts u on it otherwise; the
\* answer and the counts it reports are those of the two sets after the toggle;
\* and two toggles of one side by a user who was on neither side give back the
\* sets as they were.
C31_ToggleSemantics ==
    /\ [](\A mid \in DOMAIN votes, u \in Users, side \in Sides :
             u \notin votes[mid].up \cup votes[mid].down
             => Toggled(Toggled(votes[mid], u, side), u, side) = votes[mid])
    /\ [][\A k \in BagToSet(tasks) :
             (k.kind \in Sides /\ k.pc = "start" /\ Leaves(k) /\ Voted(k) # {})
             => LET mid == ViewKey(k.tgt)
                    old == Ensure(mid)
                    new == votes'[mid]
                IN /\ new[Other(k.kind)] = old[Other(k.kind)] \ {k.user}
                   /\ new[k.kind] = IF k.user \in old[k.kind]
                                    THEN old[k.kind] \ {k.user}
                                    ELSE old[k.kind] \cup {k.user}
                   /\ last' = Answer(k, IF k.user \in old[k.kind] THEN "removed"
                                        ELSE "added")
                   /\ \A n \in Voted(k) :
                         /\ n.snap.first = Cardinality(new.up)
                         /\ n.snap.second = Cardinality(new.down)]_vars

\* a user has voted for a side of a bound suggestion twice, and nobody is left
\* on either side
C31_Witness ==
    /\ last.kind \in Sides /\ last.res = "removed"
    /\ last.tgt \in DOMAIN voteMsgs /\ voteMsgs[last.tgt].view = "bound"
    /\ last.tgt \in DOMAIN votes
    /\ votes[last.tgt] = NoVotes

\* C32  Vote exclusivity: under every key of _votes no user is both in the up
\* set and in the down set.
C32_VoteExclusivity ==
    \A mid \in DOMAIN votes : votes[mid].up \cap votes[mid].down = {}

\* a user whose vote for up has been counted has then voted for down on the same
\* message, and stands on the down side only
C32_Witness ==
    /\ last.kind = "down" /\ last.res = "added"
    /\ \E k \in BagToSet(tasks) :
          /\ k.kind = "up" /\ k.pc = "edit" /\ k.user = last.user
          /\ k.tgt = last.tgt /\ k.snap.first >= 1
    /\ last.tgt \in DOMAIN votes
    /\ last.user \in votes[last.tgt].down
    /\ last.user \notin votes[last.tgt].up

\* the voter sets of suggestion m: the record its buttons read and change
Voters(m) == Ensure(ViewKey(m))

\* user u toggles a vote on suggestion m in this step
Toggles(u, m) ==
    \E k \in BagToSet(tasks) :
       /\ k.kind \in Sides /\ k.user = u /\ k.tgt = m /\ k.pc = "start"
       /\ Leaves(k) /\ Voted(k) # {}

\* C33  No lost votes: whatever the interleaving of the votes of distinct users
\* on a suggestion, a step leaves every user who does not toggle in it on the
\* side of the suggestion's voter sets where that user's toggles have put them,
\* so the sets always hold the effect of every toggle; and List Voters reports
\* the two sets as they are at one moment.
C33_NoLostVotes ==
    [][/\ \A m \in DOMAIN voteMsgs, u \in Users, side \in Sides :
             ~Toggles(u, m) => (u \in Voters(m)'[side] <=> u \in Voters(m)[side])
       /\ \A k \in BagToSet(tasks) :
             (k.kind = "list" /\ k.pc = "start" /\ Leaves(k))
             => \A n \in BagToSet(tasks') :
                   (/\ n.kind = "list" /\ n.user = k.user /\ n.tgt = k.tgt
                    /\ n.pc = "reply" /\ CopiesIn(n, tasks') > CopiesIn(n, tasks))
                   => /\ n.snap.first = Voters(k.tgt).up
                      /\ n.snap.second = Voters(k.tgt).down]_vars

\* C34  Votes are keyed by their own suggestion: a vote on message m changes the
\* voter sets stored under m and no others, also while m still carries the
\* temporary view; and two suggestions never vote into the same record.
C34_OwnTally ==
    /\ [](\A m1, m2 \in DOMAIN voteMsgs : m1 # m2 => ViewKey(m1) # ViewKey(m2))
    /\ [][\A m \in DOMAIN voteMsgs, u \in Users :
             Toggles(u, m)
             => \A mid \in DOMAIN votes' :
                   mid # m => (mid \in DOMAIN votes /\ votes'[mid] = votes[mid])]_vars

\* C35  Rating prompt binding: every rating prompt names the requester of its
\* ride as the rater and the claimant of that ride as the driver, and carries the
\* Ride Log entry that the End Ride which built it has posted for that ride, so
\* that no two prompts carry the same entry; and every recorded rating names the
\* claimant of the rated ride as its driver.
C35_PromptBinding ==
    /\ \A p \in DOMAIN prompts :
          LET v == prompts[p]
          IN /\ v.rider_id = rides[v.ride].requester_id
             /\ v.driver_id = rides[v.ride].claimed_by
             /\ v.log_message_id # None
                => /\ v.log_message_id \in DOMAIN logMsgs
                   /\ logMsgs[v.log_message_id].ride = v.ride
                   /\ logMsgs[v.log_message_id].driver = v.driver_id
    /\ \A p, q \in DOMAIN prompts :
          (p # q /\ prompts[p].log_message_id # None)
          => prompts[p].log_message_id # prompts[q].log_message_id
    /\ \A i \in DOMAIN ratingLog :
          ratingLog[i].driver = rides[prompts[ratingLog[i].prompt].ride].claimed_by

\* C36  In Main.py the flag claimed of a ClaimView is true exactly when
\* claimed_by_user_id is set; the two fields change only together, in one step
\* that enters the view's lock and still holds it afterwards.
C36_ClaimedIffClaimant ==
    /\ [](file = "Main.py"
          => \A r \in DOMAIN rides : rides[r].claimed <=> rides[r].claimed_by # None)
    /\ [][file = "Main.py"
          => \A r \in DOMAIN rides :
                (\/ rides'[r].claimed # rides[r].claimed
                 \/ rides'[r].claimed_by # rides[r].claimed_by)
                => /\ ~rides[r].claimed /\ rides[r].claimed_by = None
                   /\ rides'[r].claimed /\ rides'[r].claimed_by # None
                   /\ ~rides[r].lock /\ rides'[r].lock]_vars

\* a request of Main.py has been claimed and then ended by its claimant
C36_Witness ==
    /\ file = "Main.py"
    /\ \E r \in DOMAIN rides :
          /\ rides[r].claimed /\ rides[r].claimed_by # None
          /\ rides[r].end_disabled
          /\ \E a \in BagToSet(accepted) :
                a.kind = "end" /\ a.tgt = r /\ a.user = rides[r].claimed_by

\* C37  Self-claim: claim does not compare the actor with the requester. A Claim
\* of the requester on the own unclaimed request is accepted whenever the
\* requester may claim at all, and makes the requester the claimant; End Ride of
\* that claimant is accepted unless its defer() raises; and a first score of that
\* user on a prompt that names them as rider and as driver is accepted.
C37_SelfClaim ==
    [][\A k \in BagToSet(tasks) :
          /\ (/\ k.kind = "claim" /\ k.pc = "defer" /\ Leaves(k)
              /\ ~rides[k.tgt].lock /\ rides'[k.tgt].lock
              /\ k.user = rides[k.tgt].requester_id
              /\ MayClaim(rides[k.tgt], k.user) /\ ~IsClaimed(rides[k.tgt]))
             => /\ last' = Answer(k, "Ok")
                /\ rides'[k.tgt].claimed_by = k.user
          /\ (/\ k.kind = "end" /\ k.pc = "defer" /\ Leaves(k)
              /\ k.user = rides[k.tgt].requester_id
              /\ k.user = rides[k.tgt].claimed_by)
             => \/ last' = Answer(k, "Ok") /\ CopiesIn(Accepted(k), accepted') > CopiesIn(Accepted(k), accepted)
                \/ last' = last /\ accepted' = accepted /\ rides' = rides
          /\ (/\ k.kind = "rate" /\ k.pc = "start" /\ Leaves(k)
              /\ k.user = prompts[k.tgt].rider_id
              /\ k.user = prompts[k.tgt].driver_id
              /\ ~prompts[k.tgt].submitted)
             => /\ last' = Answer(k, "Ok")
                /\ prompts'[k.tgt].submitted]_vars

\* a user has claimed and ended the own request and has rated themself: the
\* accepted rating is by the rider and the driver of its prompt
C37_Witness ==
    \E a \in BagToSet(accepted), r \in DOMAIN rides :
       /\ a.kind = "rate"
       /\ prompts[a.tgt].ride = r
       /\ prompts[a.tgt].rider_id = a.user /\ prompts[a.tgt].driver_id = a.user
       /\ rides[r].requester_id = a.user /\ rides[r].claimed_by = a.user
       /\ Accepted(NewTask("claim", a.user, r, 0, "defer")) \in BagToSet(accepted)
       /\ Accepted(NewTask("end", a.user, r, 0, "defer")) \in BagToSet(accepted)

====
